---- MODULE Spec2Model ----
(***************************************************************************)
(* cli-analytics: event ingestion and the incremental inference pipeline   *)
(* (sessionization + workflow inference behind a cursor).                  *)
(*                                                                         *)
(* The store is a PostgreSQL database used at READ COMMITTED.  The model   *)
(* keeps the committed rows plus the rows an open ingest transaction has   *)
(* flushed but not committed (they hold an id already, and are invisible   *)
(* to every other transaction).                                            *)
(*                                                                         *)
(* An infer request is two steps: InferBegin reads the cursor and fetches  *)
(* its work (infer.py 347-358); InferCommit runs sessionize_events,        *)
(* infer_workflows, the cursor update and the single commit (infer.py      *)
(* 371-385) against the rows committed at that moment.  Ingest steps and   *)
(* (in SpecOverlap) other infer requests interleave between the two.       *)
(***************************************************************************)
EXTENDS Integers, Sequences, FiniteSets, TLC

\* ------------------------------------------------------------------ bounds
\* Raw events ever flushed (ids handed out by the raw_events sequence).
MaxEvents == 3

\* ------------------------------------------------------- program constants
session_timeout_minutes == 30
FetchLimit == 10000

ENTRY_COMMANDS ==
    {"init", "login", "setup", "config", "create", "new", "start", "begin", "configure"}

TERMINAL_COMMANDS ==
    {"deploy", "apply", "release", "publish", "scan", "test", "build", "push", "run", "execute"}

\* ------------------------------------------------------------ Optional[T]
\* None is <<>>, a present value x is <<x>>.
None == <<>>
Some(x) == <<x>>
Val(o) == o[1]

\* F applied to the value of x, x evaluated once (Python evaluates an argument
\* before the call).
Bind(x, F(_)) == CHOOSE r \in { F(v) : v \in {x} } : TRUE

\* ----------------------------------------------------------------- inputs
\* Event timestamps, in minutes after a base time: 0/30 is a gap of exactly
\* the timeout, 30/70 a gap beyond it, 15 lies between two events of a session.
Times == {0, 15, 30, 70}

\* (actor_id_hash, machine_id_hash, session_hint, ci_detected) of an event:
\* a base profile and one that differs from it in each field that
\* sessionize_events compares.
Profiles ==
    { [actor |-> "a1", machine |-> "m1", hint |-> None,       ci |-> FALSE],
      [actor |-> "a2", machine |-> "m1", hint |-> None,       ci |-> FALSE],
      [actor |-> "a1", machine |-> "m1", hint |-> Some("h1"), ci |-> FALSE],
      [actor |-> "a1", machine |-> "m1", hint |-> None,       ci |-> TRUE] }

BaseProfile == [actor |-> "a1", machine |-> "m1", hint |-> None, ci |-> FALSE]

\* Last token of command_path: an entry command, a terminal command, neither.
Commands == {"init", "plan", "apply"}
ExitCodes == {None, Some(0), Some(1)}

\* Tool names are strings, held as sequences of characters. exit_code is a
\* Python int of any size: exit_high counts its multiples of 2^31 above the
\* part in exit, so that exit_high = 0 is a value of 32 bits.
ToolA == <<"a">>
ToolB == <<"b">>

MkInput(ts, p, cmd, exit) ==
    [ts |-> ts, actor |-> p.actor, machine |-> p.machine, hint |-> p.hint,
     ci |-> p.ci, cmd |-> cmd, exit |-> exit, exit_high |-> 0,
     tool_name |-> ToolA, duration_ms |-> None,
     command_path |-> <<<<"t">>, <<"c">>>>, flags_present |-> <<>>]

\* Events that differ in what sessionization reads, and events of one
\* profile that differ in what workflow inference reads.
SessInputs == { MkInput(t, p, "plan", Some(0)) : t \in Times, p \in Profiles }
CmdInputs  == { MkInput(0, BaseProfile, c, x) : c \in Commands, x \in ExitCodes }
EventInputs == SessInputs \cup CmdInputs

\* Inputs of the specifications about overlapping requests: one pair, events
\* within and beyond the timeout.
OverlapInputs  == { MkInput(t, BaseProfile, "plan", Some(0)) : t \in {0, 70} }
InflightInputs == { MkInput(t, BaseProfile, "plan", Some(0)) : t \in {0, 70} }

\* Inputs of the specification about workflow inference: one profile, every
\* kind of command with every exit code, at timestamps within the timeout.
WorkflowTimes == {0, 15, 30}
WorkflowInputs ==
    { MkInput(t, BaseProfile, c, x) : t \in WorkflowTimes, c \in Commands, x \in ExitCodes }

\* Inputs of the specification about durations: one profile, an entry command
\* and another, with no duration, a duration of 0 and a positive one.
Durations == {None, Some(0), Some(5)}
DurationInputs ==
    { [MkInput(t, BaseProfile, c, Some(0)) EXCEPT !.duration_ms = d] :
        t \in {0, 15}, c \in {"init", "plan"}, d \in Durations }

\* Inputs of the specification about recommendations: one profile, an entry
\* command, another command and an event whose command path is stored empty
\* (cmd ""), each succeeding or failing.
RecommendInputs ==
    { MkInput(t, BaseProfile, c, x) :
        t \in {0, 15}, c \in {"init", "plan"}, x \in {Some(0), Some(1)} }
    \cup { [MkInput(t, BaseProfile, "", Some(0)) EXCEPT !.command_path = <<<<>>>>] :
             t \in {0, 15} }

\* Inputs of the specification about batch requests: an event that passes,
\* one that the request schema refuses (duration_ms < 0), one whose exit code
\* does not fit the column.
GoodEvent == MkInput(0, BaseProfile, "plan", Some(0))
NegativeDuration == [GoodEvent EXCEPT !.duration_ms = Some(-1)]
HugeExitCode == [GoodEvent EXCEPT !.exit_high = 1]
BatchInputs == {GoodEvent, NegativeDuration, HugeExitCode}

\* Inputs of the specification about tenants: events of two tools, commands
\* that end a workflow or not, both exit codes.
TenantInputs ==
    { [MkInput(0, BaseProfile, c, Some(x)) EXCEPT !.tool_name = tool] :
        c \in {"plan", "apply"}, x \in {0, 1}, tool \in {ToolA, ToolB} }

\* Events in a request body.
MaxBatch == 2
BatchLimit == 1000

RECURSIVE SeqsUpTo(_, _)
SeqsUpTo(S, n) ==
    IF n = 0 THEN {<<>>}
    ELSE LET shorter == SeqsUpTo(S, n - 1)
         IN  shorter \cup { Append(q, x) : q \in shorter, x \in S }

\* Inputs of the specification about sanitization: command tokens and flags
\* as clients may send them.
SanitizeTokens ==
    { <<"d", "e", "p", "l", "o", "y">>,
      <<"D", "e", "p", "l", "o", "y">>,
      <<>>,
      <<" ">>,
      <<"/", "e", "t", "c", "/", "x">>,
      <<"m", "y", "_", "c", "m", "d", "-", "1">>,
      <<"1", "s", "t">> }

SanitizeFlags ==
    { <<"-", "-", "h", "e", "l", "p">>,
      <<"-", "v">>,
      <<"v", "e", "r", "b", "o", "s", "e">>,
      <<"-", "-", "a", "p", "i", "-", "k", "e", "y">>,
      <<"-", "-", "o", "u", "t", "=", "x">>,
      <<"-", "-", "n", "a", "m", "e", ":", "x">>,
      <<" ", "-", "-", "d", "r", "y", "-", "r", "u", "n", " ">>,
      <<"-", "-", "K", "E", "Y">>,
      <<"-", "-">>,
      <<"=", "x">> }

\* Tokens in a command path and flags in a list, at most.
MaxTokens == 2

SanitizeInputs ==
    { [GoodEvent EXCEPT !.command_path = path, !.flags_present = flags] :
        path \in SeqsUpTo(SanitizeTokens, MaxTokens) \ {<<>>},
        flags \in SeqsUpTo(SanitizeFlags, MaxTokens) }

\* Request bodies: one event, or a list of events.
Payloads == SeqsUpTo(BatchInputs, MaxBatch) \ {<<>>}

\* The X-API-Key header of a request: a key of the api_keys table, or none.
ApiKeys == {"keyA", "keyB"}
KeyHeaders == {None} \cup { Some(k) : k \in ApiKeys }

\* The tool an API key was issued for (api_keys.tool_name).
KeyTool(k) == IF k = "keyA" THEN ToolA ELSE ToolB

IngestProcs == {"i1", "i2"}
InferProcs  == {"p1", "p2"}

VARIABLES
    events,     \* raw_events rows by id (flushed; .committed tells visibility)
    sessions,   \* sessions rows by id
    workflows,  \* workflow_runs rows by id
    steps,      \* workflow_steps rows
    cursor,     \* inference_cursor.last_event_id (row id = 1)
    itx,        \* per ingest request: ids flushed in its open transaction
    inf,        \* per infer request: position, cursor read, events fetched
    ing,        \* per ingest request: credential, payload, counters, response
    experiments,          \* experiments rows by id
    variant_assignments,  \* variant_assignments rows by id
    xp,                   \* per experiments request: position, response
    returned,             \* the variants get_variant has answered, per
                          \* (tool, experiment name, actor)
    orm_tool_name         \* whether ApiKey and Experiment carry the tool_name
                          \* attribute of migration 004 (models.py does not)

expvars == <<experiments, variant_assignments, xp, returned, orm_tool_name>>

vars == <<events, sessions, workflows, steps, cursor, itx, inf, ing,
          experiments, variant_assignments, xp, returned, orm_tool_name>>

ExpProcs == {"x1", "x2"}

Idle == [pc |-> "idle", cursor |-> 0, events |-> <<>>]

\* An ingest request label with no request under way.
NoRequest == [pc |-> "idle"]

\* The empty database and no request under way.
InitStore ==
    /\ events = <<>>
    /\ sessions = <<>>
    /\ workflows = <<>>
    /\ steps = {}
    /\ cursor = 0
    /\ itx = [t \in IngestProcs |-> {}]
    /\ inf = [p \in InferProcs |-> Idle]
    /\ ing = [t \in IngestProcs |-> NoRequest]
    /\ experiments = <<>>
    /\ variant_assignments = <<>>
    /\ xp = [r \in ExpProcs |-> NoRequest]
    /\ returned = {}

\* The service as models.py declares its tables: no tool_name on ApiKey and
\* Experiment.
Init == InitStore /\ orm_tool_name = FALSE

\* ------------------------------------------------------------------ strings
\* A string is the sequence of its characters.
LowerSeq == <<"a", "b", "c", "d", "e", "f", "g", "h", "i", "j", "k", "l",
              "m", "n", "o", "p", "q", "r", "s", "t", "u", "v", "w", "x", "y", "z">>
UpperSeq == <<"A", "B", "C", "D", "E", "F", "G", "H", "I", "J", "K", "L",
              "M", "N", "O", "P", "Q", "R", "S", "T", "U", "V", "W", "X", "Y", "Z">>
LowerLetters == { LowerSeq[i] : i \in 1..Len(LowerSeq) }
UpperLetters == { UpperSeq[i] : i \in 1..Len(UpperSeq) }
Letters == LowerLetters \cup UpperLetters
Digits == {"0", "1", "2", "3", "4", "5", "6", "7", "8", "9"}
HexChars == Digits \cup {"a", "b", "c", "d", "e", "f"}
\* [a-zA-Z0-9_-]
WordChars == Letters \cup Digits \cup {"_", "-"}
Whitespace == {" "}

\* str.lower(), for the characters of the model.
LowerChar(c) ==
    IF c \in UpperLetters
    THEN LowerSeq[CHOOSE i \in 1..Len(UpperSeq) : UpperSeq[i] = c]
    ELSE c

lower(str) == [i \in 1..Len(str) |-> LowerChar(str[i])]

\* str.strip(): without the whitespace at both ends.
RECURSIVE lstrip(_)
lstrip(str) ==
    IF str # <<>> /\ Head(str) \in Whitespace THEN lstrip(Tail(str)) ELSE str

RECURSIVE rstrip(_)
rstrip(str) ==
    IF str # <<>> /\ str[Len(str)] \in Whitespace
    THEN rstrip(SubSeq(str, 1, Len(str) - 1)) ELSE str

strip(str) == lstrip(rstrip(str))

\* str.split(sep)[0]: what stands before the first sep, all of it without.
SplitFirst(str, sep) ==
    LET at == { i \in 1..Len(str) : str[i] = sep }
    IN  IF at = {} THEN str
        ELSE SubSeq(str, 1, (CHOOSE i \in at : \A j \in at : i <= j) - 1)

\* re.search of a literal word.
Contains(str, word) ==
    \E i \in 1..(Len(str) - Len(word) + 1) :
        SubSeq(str, i, i + Len(word) - 1) = word

\* ------------------------------------------------------------------ privacy
\* BLOCKED_FLAG_PATTERNS, all case-insensitive: six words and api[-_]?key.
BLOCKED_FLAG_WORDS ==
    { <<"t", "o", "k", "e", "n">>, <<"p", "a", "s", "s", "w", "o", "r", "d">>,
      <<"s", "e", "c", "r", "e", "t">>, <<"k", "e", "y">>, <<"a", "u", "t", "h">>,
      <<"c", "r", "e", "d", "e", "n", "t", "i", "a", "l">>,
      <<"a", "p", "i", "k", "e", "y">>, <<"a", "p", "i", "-", "k", "e", "y">>, <<"a", "p", "i", "_", "k", "e", "y">> }

Blocked(flag_name) == \E word \in BLOCKED_FLAG_WORDS : Contains(lower(flag_name), word)

\* The name after dashes dashes: [a-zA-Z][a-zA-Z0-9_-]* to the end.
NameAfterDashes(str, dashes) ==
    /\ Len(str) > dashes
    /\ \A i \in 1..dashes : str[i] = "-"
    /\ str[dashes + 1] \in Letters
    /\ \A i \in (dashes + 2)..Len(str) : str[i] \in WordChars

\* ALLOWED_FLAG_PATTERNS: ^--?[a-zA-Z][a-zA-Z0-9_-]*$, one dash or two.
AllowedFlag(flag_name) ==
    NameAfterDashes(flag_name, 1) \/ NameAfterDashes(flag_name, 2)

\* SAFE_COMMAND_PATTERN: ^[a-zA-Z][a-zA-Z0-9_-]*$
SafeCommand(element) == NameAfterDashes(element, 0)

Redacted == <<"[", "R", "E", "D", "A", "C", "T", "E", "D", "]">>

\* hash_identifier(value): the first 16 hex characters of
\* SHA-256("<hash_salt>:<value>"), for the identifiers of the model and the
\* default salt.
hash_identifier(value) ==
    CASE value = "a1" -> <<"9", "2", "5", "8", "e", "9", "6", "1", "d", "b", "8", "d", "d", "b", "c", "f">>
      [] value = "a2" -> <<"6", "2", "8", "f", "3", "8", "3", "5", "7", "4", "6", "9", "e", "9", "5", "8">>
      [] value = "m1" -> <<"6", "6", "d", "b", "2", "c", "9", "a", "a", "2", "4", "9", "8", "4", "1", "0">>
      [] value = "m2" -> <<"8", "b", "e", "6", "6", "5", "4", "6", "2", "3", "f", "0", "0", "0", "9", "4">>

\* Variant of sanitize_flag_name without the blocklist (C27 fails of it).
sanitize_flag_name_unblocked(flag) ==
    LET flag_name == strip(SplitFirst(SplitFirst(flag, "="), ":"))
    IN  IF flag_name = <<>> THEN None
        ELSE IF AllowedFlag(flag_name) THEN Some(flag_name)
        ELSE None

\* sanitize_flag_name(flag): the name without its value, or None.
sanitize_flag_name(flag) ==
    LET flag_name == strip(SplitFirst(SplitFirst(flag, "="), ":"))
    IN  IF flag_name = <<>> THEN None
        ELSE IF Blocked(flag_name) THEN None
        ELSE IF AllowedFlag(flag_name) THEN Some(flag_name)
        ELSE None

\* sanitize_flags(flags): the names sanitize_flag_name keeps, in order.
RECURSIVE sanitize_flags(_)
sanitize_flags(flags) ==
    IF flags = <<>> THEN <<>>
    ELSE LET clean_flag == sanitize_flag_name(Head(flags))
         IN  IF clean_flag # None /\ Val(clean_flag) # <<>>
             THEN <<Val(clean_flag)>> \o sanitize_flags(Tail(flags))
             ELSE sanitize_flags(Tail(flags))

\* sanitize_command_path(path): each element lowercased, or "[REDACTED]" in
\* its place.
sanitize_command_path(path) ==
    [i \in 1..Len(path) |->
        IF SafeCommand(strip(path[i])) THEN lower(strip(path[i])) ELSE Redacted]

\* EventInput.validate_command_path: the empty strings are left out, the
\* others stripped.
validate_command_path(v) ==
    LET kept == SelectSeq(v, LAMBDA cmd : cmd # <<>>)
    IN  [i \in 1..Len(kept) |-> strip(kept[i])]

\* EventInput.validate_flags: each flag cut at "=" and ":" and stripped, the
\* empty results left out.
validate_flags(v) ==
    LET names == [i \in 1..Len(v) |-> strip(SplitFirst(SplitFirst(v[i], "="), ":"))]
    IN  SelectSeq(names, LAMBDA flag_name : flag_name # <<>>)

\* The event as the handler receives it from the request schema.
Validated(ev) ==
    [ev EXCEPT !.command_path = validate_command_path(@),
               !.flags_present = validate_flags(@)]

\* ---------------------------------------------------------------- ingestion
\* The RawEvent row process_event builds; session_id and workflow_run_id are
\* left to inference.
AllowedToolChars == {"a", "b", "1", "-", "_"}
UnknownTool == <<"u", "n", "k", "n", "o", "w", "n">>
ToolNameLimit == 128

\* sanitize_tool_name: drop every character outside [a-zA-Z0-9_-], keep the
\* first 128, "unknown" when nothing is left.
sanitize_tool_name(tool_name) ==
    LET clean == SelectSeq(tool_name, LAMBDA c : c \in AllowedToolChars)
    IN  IF clean = <<>> THEN UnknownTool
        ELSE IF Len(clean) > ToolNameLimit THEN SubSeq(clean, 1, ToolNameLimit)
        ELSE clean

RawEvent(inp, committed) ==
    [ts |-> inp.ts, actor |-> inp.actor, machine |-> inp.machine,
     hint |-> inp.hint, ci |-> inp.ci, cmd |-> inp.cmd, exit |-> inp.exit,
     duration_ms |-> inp.duration_ms,
     tool_name |-> sanitize_tool_name(inp.tool_name),
     command_path |-> sanitize_command_path(inp.command_path),
     flags_present |-> sanitize_flags(inp.flags_present),
     actor_id_hash |-> hash_identifier(inp.actor),
     machine_id_hash |-> hash_identifier(inp.machine),
     session_id |-> None, workflow_run_id |-> None, committed |-> committed]

\* process_event: build the RawEvent, db.add, db.flush: the row takes the next
\* id of the sequence and stays invisible until the request commits.  (Request
\* labels are interchangeable: "i2" is the label of a request that runs while
\* "i1" is open.)
process_event(t, inp) ==
    /\ Len(events) < MaxEvents
    /\ (t = "i2" /\ itx[t] = {}) => itx["i1"] # {}
    /\ events' = Append(events, RawEvent(Validated(inp), FALSE))
    /\ itx' = [itx EXCEPT ![t] = @ \cup {Len(events) + 1}]
    /\ UNCHANGED <<sessions, workflows, steps, cursor, inf, ing>>
    /\ UNCHANGED expvars

\* ingest_events, after its loop: db.commit() makes the request's rows visible
\* together.
IngestCommit(t) ==
    /\ itx[t] # {}
    /\ events' = [i \in 1..Len(events) |->
                     IF i \in itx[t] THEN [events[i] EXCEPT !.committed = TRUE]
                     ELSE events[i]]
    /\ itx' = [itx EXCEPT ![t] = {}]
    /\ UNCHANGED <<sessions, workflows, steps, cursor, inf, ing>>
    /\ UNCHANGED expvars

\* ingest_events for a single-event payload, start to commit, with no other
\* request in between.
ingest_events(inp) ==
    /\ Len(events) < MaxEvents
    /\ \A t \in IngestProcs : itx[t] = {}
    /\ events' = Append(events, RawEvent(Validated(inp), TRUE))
    /\ UNCHANGED <<sessions, workflows, steps, cursor, itx, inf, ing>>
    /\ UNCHANGED expvars

\* ------------------------------------------- ingest_events, event by event
\* The request schema (EventInput): duration_ms >= 0, tool_name not empty.
\* The fields the model does not vary satisfy it.
ValidEventInput(ev) ==
    /\ ev.duration_ms = None \/ Val(ev.duration_ms) >= 0
    /\ Len(ev.tool_name) >= 1
    /\ Len(ev.command_path) >= 1

\* Union[EventInput, BatchEventInput]: every event of the body must pass the
\* schema and a list holds 1..1000 events, or the handler is not entered.
ValidPayload(payload) ==
    /\ Len(payload) >= 1 /\ Len(payload) <= BatchLimit
    /\ \A j \in 1..Len(payload) : ValidEventInput(payload[j])

\* exit_code is an Integer column: the INSERT of a value outside 32 bits
\* raises from db.flush().
FlushRaises(ev) == ev.exit # None /\ ev.exit_high # 0

\* db.commit(): the rows the transaction flushed become visible together.
CommitRows(E, ids) ==
    [i \in 1..Len(E) |->
        IF i \in ids THEN [E[i] EXCEPT !.committed = TRUE] ELSE E[i]]

\* The response of a request the handler did not run for (401, 422) or that
\* ended in an error (500).
ErrorResponse(key, payload, status) ==
    [pc |-> "done", key |-> key, payload |-> payload, todo |-> <<>>,
     accepted |-> 0, rejected |-> 0, event_ids |-> 0, rows |-> {},
     active |-> TRUE, commit_error |-> FALSE, status |-> status]

\* A request arrives: verify_api_key answers 401 without a key, the body is
\* checked against the schema (422), then the handler starts its loop.
IngestRequest(t, key, payload) ==
    /\ ing[t].pc \in {"idle", "done"}
    /\ itx[t] = {}
    /\ Len(events) + Len(payload) <= MaxEvents
    /\ ing' = [ing EXCEPT ![t] =
                  IF key = None THEN ErrorResponse(key, payload, 401)
                  ELSE IF ~ ValidPayload(payload) THEN ErrorResponse(key, payload, 422)
                  ELSE [pc |-> "loop", key |-> key, payload |-> payload,
                        todo |-> [j \in 1..Len(payload) |-> Validated(payload[j])], accepted |-> 0, rejected |-> 0,
                        event_ids |-> 0, rows |-> {}, active |-> TRUE,
                        commit_error |-> FALSE, status |-> 0]]
    /\ UNCHANGED <<events, sessions, workflows, steps, cursor, itx, inf>>
    /\ UNCHANGED expvars

\* One iteration of "for event in events", lines 112-119, with process_event:
\* a failed flush rolls the transaction back (the rows flushed before are
\* gone) and leaves the database session unusable until a rollback() that
\* process_event does not issue, so that every later flush raises as well;
\* each exception is caught and counts the event as rejected.
IngestLoop(t) ==
    /\ ing[t].pc = "loop"
    /\ ing[t].todo # <<>>
    /\ LET ev == Head(ing[t].todo) IN
       IF ~ ing[t].active \/ FlushRaises(ev)
       THEN /\ ing' = [ing EXCEPT ![t] =
                          [@ EXCEPT !.todo = Tail(@), !.rejected = @ + 1,
                                    !.active = FALSE]]
            /\ itx' = [itx EXCEPT ![t] = {}]
            /\ UNCHANGED events
       ELSE /\ events' = Append(events, RawEvent(ev, FALSE))
            /\ itx' = [itx EXCEPT ![t] = @ \cup {Len(events) + 1}]
            /\ ing' = [ing EXCEPT ![t] =
                          [@ EXCEPT !.todo = Tail(@), !.accepted = @ + 1,
                                    !.event_ids = @ + 1,
                                    !.rows = @ \cup {Len(events) + 1}]]
    /\ UNCHANGED <<sessions, workflows, steps, cursor, inf>>
    /\ UNCHANGED expvars

\* Lines 121-135: db.commit(); when it raises (the session is unusable, or
\* the database fails: db_ok is that input) the handler rolls back and
\* answers 500, otherwise 200 with the counters.
IngestFinish(t, db_ok) ==
    /\ ing[t].pc = "loop"
    /\ ing[t].todo = <<>>
    /\ IF ing[t].active /\ db_ok
       THEN /\ events' = CommitRows(events, itx[t])
            /\ ing' = [ing EXCEPT ![t] = [@ EXCEPT !.pc = "done", !.status = 200]]
       ELSE /\ events' = events
            /\ ing' = [ing EXCEPT ![t] =
                          [@ EXCEPT !.pc = "done", !.status = 500,
                                    !.commit_error = ~ db_ok]]
    /\ itx' = [itx EXCEPT ![t] = {}]
    /\ UNCHANGED <<sessions, workflows, steps, cursor, inf>>
    /\ UNCHANGED expvars

\* ------------------------------------------------------------ sessionization
MaxOf(S) == CHOOSE x \in S : \A y \in S : y <= x

\* list.sort(key=lambda e: e.timestamp): stable, ascending.
RECURSIVE InsertByTs(_, _, _)
InsertByTs(E, sorted, i) ==
    IF sorted = <<>> THEN <<i>>
    ELSE IF E[Head(sorted)].ts <= E[i].ts
         THEN <<Head(sorted)>> \o InsertByTs(E, Tail(sorted), i)
         ELSE <<i>> \o sorted

RECURSIVE SortByTs(_, _)
SortByTs(E, ids) ==
    IF ids = <<>> THEN <<>>
    ELSE InsertByTs(E, SortByTs(E, SubSeq(ids, 1, Len(ids) - 1)), ids[Len(ids)])

\* The keys of actor_machine_groups, in insertion order (first appearance).
RECURSIVE GroupKeys(_, _, _)
GroupKeys(E, ids, acc) ==
    IF ids = <<>> THEN acc
    ELSE LET k == <<E[Head(ids)].actor, E[Head(ids)].machine>>
         IN  GroupKeys(E, Tail(ids),
                       IF \E j \in 1..Len(acc) : acc[j] = k THEN acc
                       ELSE Append(acc, k))

GroupEvents(E, ids, k) ==
    SelectSeq(ids, LAMBDA i : <<E[i].actor, E[i].machine>> = k)

\* Variant of OpenSessions without the filter on ended_at (C35 fails of
\* it).
OpenSessionsOrClosed(S, k) ==
    { s \in 1..Len(S) : S[s].actor = k[1] /\ S[s].machine = k[2] }

\* The most recent open session of the pair: filter(..., ended_at IS NULL)
\* .order_by(started_at.desc()).first().  None when there is none.
OpenSessions(S, k) ==
    { s \in 1..Len(S) :
        S[s].actor = k[1] /\ S[s].machine = k[2] /\ S[s].ended_at = None }

MostRecentOpen(S, k) ==
    { s \in OpenSessions(S, k) :
        \A r \in OpenSessions(S, k) : S[r].started_at <= S[s].started_at }

existing_session(S, k) ==
    IF OpenSessions(S, k) = {} THEN None
    ELSE Some(CHOOSE s \in MostRecentOpen(S, k) : TRUE)

\* last_event_time: the session's started_at, replaced by the timestamp of the
\* latest stored event attached to the session when there is one.
last_event_time(E, S, sid) ==
    LET att == { i \in 1..Len(E) : E[i].session_id = Some(sid) }
    IN  IF att = {} THEN S[sid].started_at
        ELSE MaxOf({ E[i].ts : i \in att })

\* session_events[sid].extend(evs), creating the key when it is missing.
AddSessionEvents(sev, sid, evs) ==
    IF \E j \in 1..Len(sev) : sev[j].sid = sid
    THEN [j \in 1..Len(sev) |->
            IF sev[j].sid = sid THEN [sev[j] EXCEPT !.evs = @ \o evs] ELSE sev[j]]
    ELSE Append(sev, [sid |-> sid, evs |-> evs])

\* Variant of HardBoundary that compares the hint alone (C5 fails of it).
HardBoundaryHintOnly(s, ev) == s.session_hint # ev.hint

\* The hard boundaries: hint or ci differ.
HardBoundary(s, ev) == s.session_hint # ev.hint \/ s.ci_detected # ev.ci

\* time_diff > timeout_delta
TimedOut(from, to) == to - from > session_timeout_minutes

\* The loop state of one group: S sessions, E events (in memory), sev the
\* session_events dict, cur / cur_evs the current session and its events of
\* this run.

\* Variant of CloseCurrent that leaves ended_at unset (C34 fails of it).
CloseCurrentLeftOpen(st) ==
    LET c == Val(st.cur)
        n == Len(st.cur_evs)
    IN  [st EXCEPT
            !.S = [@ EXCEPT ![c] = [@ EXCEPT !.event_count = @ + n]],
            !.sev = AddSessionEvents(@, c, st.cur_evs),
            !.cur = None,
            !.cur_evs = <<>>]

\* "Close current session", lines 167-180.
CloseCurrent(st) ==
    LET c == Val(st.cur)
        n == Len(st.cur_evs)
    IN  [st EXCEPT
            !.S = [@ EXCEPT ![c] =
                     [@ EXCEPT !.ended_at = Some(st.E[st.cur_evs[n]].ts),
                               !.event_count = @ + n]],
            !.sev = AddSessionEvents(@, c, st.cur_evs),
            !.cur = None,
            !.cur_evs = <<>>]

\* "Add event to current session", lines 198-200.
Attach(st, e) ==
    [st EXCEPT !.E = [@ EXCEPT ![e] = [@ EXCEPT !.session_id = st.cur]],
               !.cur_evs = Append(@, e)]

\* "Create new session", lines 182-196, then the event is added to it.
StartNew(st, e) ==
    LET ev == st.E[e]
        new == [actor |-> ev.actor, machine |-> ev.machine,
                session_hint |-> ev.hint, ci_detected |-> ev.ci,
                started_at |-> ev.ts, ended_at |-> None, event_count |-> 0]
    IN  Attach([st EXCEPT !.S = Append(@, new),
                          !.cur = Some(Len(st.S) + 1),
                          !.cur_evs = <<>>], e)

\* One iteration of "for event in group_events", lines 123-200.  DB is the
\* stored raw_events table the last_session_event query reads.
SessionizeEvent(st, DB, existing, e) ==
    LET ev == st.E[e] IN
    IF st.cur = None /\ existing = None THEN StartNew(st, e)
    ELSE IF st.cur = None THEN
        LET x == Val(existing)
            let == last_event_time(DB, st.S, x)
        IN  IF HardBoundary(st.S[x], ev) \/ TimedOut(let, ev.ts)
            THEN StartNew([st EXCEPT !.S = [@ EXCEPT ![x] =
                                              [@ EXCEPT !.ended_at = Some(let)]]], e)
            ELSE Attach([st EXCEPT !.cur = existing, !.cur_evs = <<>>], e)
    ELSE
        LET c == Val(st.cur)
            last == st.cur_evs[Len(st.cur_evs)]
        IN  IF HardBoundary(st.S[c], ev) \/ TimedOut(st.E[last].ts, ev.ts)
            THEN Bind(CloseCurrent(st), LAMBDA closed : StartNew(closed, e))
            ELSE Attach(st, e)

RECURSIVE SessionizeLoop(_, _, _, _)
SessionizeLoop(st, DB, existing, evs) ==
    IF evs = <<>> THEN st
    ELSE Bind(SessionizeEvent(st, DB, existing, Head(evs)),
              LAMBDA nxt : SessionizeLoop(nxt, DB, existing, Tail(evs)))

\* Variant of Finalize that leaves the last session's events out of
\* session_events (C8 fails of it).
FinalizeUnsaved(st) ==
    IF st.cur # None /\ st.cur_evs # <<>>
    THEN [st EXCEPT
            !.S = [@ EXCEPT ![Val(st.cur)] =
                     [@ EXCEPT !.event_count = @ + Len(st.cur_evs)]],
            !.cur = None,
            !.cur_evs = <<>>]
    ELSE [st EXCEPT !.cur = None, !.cur_evs = <<>>]

\* "Finalize current session", lines 202-207.
Finalize(st) ==
    IF st.cur # None /\ st.cur_evs # <<>>
    THEN [st EXCEPT
            !.S = [@ EXCEPT ![Val(st.cur)] =
                     [@ EXCEPT !.event_count = @ + Len(st.cur_evs)]],
            !.sev = AddSessionEvents(@, Val(st.cur), st.cur_evs),
            !.cur = None,
            !.cur_evs = <<>>]
    ELSE [st EXCEPT !.cur = None, !.cur_evs = <<>>]

\* One iteration of "for (actor_hash, machine_hash), group_events in ...".
SessionizeGroup(st, DB, ids, k) ==
    Bind(SortByTs(st.E, GroupEvents(st.E, ids, k)), LAMBDA group_events :
    Bind(existing_session(st.S, k), LAMBDA existing :
    Bind(SessionizeLoop(st, DB, existing, group_events), LAMBDA done :
    Finalize(done))))

RECURSIVE SessionizeGroups(_, _, _, _)
SessionizeGroups(st, DB, ids, keys) ==
    IF keys = <<>> THEN st
    ELSE Bind(SessionizeGroup(st, DB, ids, Head(keys)),
              LAMBDA nxt : SessionizeGroups(nxt, DB, ids, Tail(keys)))

\* sessionize_events(db, events): S and DB are the stored sessions and events,
\* ids the fetched events, whose in-memory session_id is None as fetched.
sessionize_events(S, DB, ids) ==
    LET mem == [i \in 1..Len(DB) |->
                  IF \E j \in 1..Len(ids) : ids[j] = i
                  THEN [DB[i] EXCEPT !.session_id = None, !.workflow_run_id = None]
                  ELSE DB[i]]
    IN  Bind([S |-> S, E |-> mem, sev |-> <<>>, cur |-> None, cur_evs |-> <<>>],
             LAMBDA st : SessionizeGroups(st, DB, ids, GroupKeys(DB, ids, <<>>)))

\* -------------------------------------------------------- workflow inference
\* cmd is the last token of the stored command_path (lowercased at ingestion).
is_entry_command(cmd) == cmd \in ENTRY_COMMANDS

is_terminal_command(cmd) == cmd \in TERMINAL_COMMANDS

\* Variant of determine_outcome without the exit_code is None case (C10 fails
\* of it).
determine_outcome_exit_unchecked(exit_code, is_terminal, is_timeout) ==
    IF is_timeout THEN "ABANDONED"
    ELSE IF ~is_terminal THEN "ABANDONED"
    ELSE IF exit_code = Some(0) THEN "SUCCESS" ELSE "FAILED"

determine_outcome(exit_code, is_terminal, is_timeout) ==
    IF is_timeout THEN "ABANDONED"
    ELSE IF ~is_terminal THEN "ABANDONED"
    ELSE IF exit_code = None THEN "ABANDONED"
    ELSE IF Val(exit_code) = 0 THEN "SUCCESS" ELSE "FAILED"

\* Counter(xs).most_common(1)[0][0]: the element with the most occurrences,
\* the one met first among equals.
MostCommon(xs) ==
    LET count(x) == Cardinality({ j \in 1..Len(xs) : xs[j] = x })
        first(x) == CHOOSE j \in 1..Len(xs) :
                        xs[j] = x /\ \A k \in 1..(j - 1) : xs[k] # x
        best == CHOOSE j \in 1..Len(xs) :
                    /\ first(xs[j]) = j
                    /\ \A k \in 1..Len(xs) :
                          \/ count(xs[k]) < count(xs[j])
                          \/ count(xs[k]) = count(xs[j]) /\ first(xs[k]) >= j
    IN  xs[best]

\* infer_workflow_name(events): "<most common terminal command>_workflow",
\* else "<tool_name of the first event>_workflow".  The name is held as the
\* pieces it is joined from.
infer_workflow_name(E, evs) ==
    LET terminal_commands ==
            [j \in 1..Len(SelectSeq(evs, LAMBDA i : is_terminal_command(E[i].cmd))) |->
                E[SelectSeq(evs, LAMBDA i : is_terminal_command(E[i].cmd))[j]].cmd]
    IN  IF terminal_commands # <<>>
        THEN <<MostCommon(terminal_commands), "_workflow">>
        ELSE Append(E[evs[1]].tool_name, "_workflow")

\* Timestamps count minutes; a duration is in milliseconds.
MsPerMinute == 60000

\* "Calculate duration", lines 294-300: the time from the first event to the
\* last, or the duration of the only event when it is truthy (not None and
\* not 0).
workflow_duration_ms(E, evs) ==
    IF Len(evs) > 1
    THEN Some((E[evs[Len(evs)]].ts - E[evs[1]].ts) * MsPerMinute)
    ELSE IF E[evs[1]].duration_ms # None /\ Val(E[evs[1]].duration_ms) # 0
         THEN E[evs[1]].duration_ms
         ELSE None

\* Variant of create_workflow that numbers the steps from 1 (C13 fails of it).
create_workflow_from_one(wst, session_id, evs, is_timeout) ==
    LET last == wst.E[evs[Len(evs)]]
        wid  == Len(wst.W) + 1
        run  == [session_id |-> session_id,
                 workflow_name |-> infer_workflow_name(wst.E, evs),
                 command_fingerprint |-> [j \in 1..Len(evs) |-> wst.E[evs[j]].cmd],
                 outcome |-> determine_outcome(last.exit,
                                               is_terminal_command(last.cmd),
                                               is_timeout),
                 started_at |-> wst.E[evs[1]].ts,
                 ended_at |-> last.ts,
                 duration_ms |-> workflow_duration_ms(wst.E, evs),
                 step_count |-> Len(evs)]
    IN  [wst EXCEPT
            !.W = Append(@, run),
            !.St = @ \cup { [workflow_run_id |-> wid, event_id |-> evs[j],
                             step_order |-> j] : j \in 1..Len(evs) },
            !.E = [i \in 1..Len(wst.E) |->
                     IF \E j \in 1..Len(evs) : evs[j] = i
                     THEN [wst.E[i] EXCEPT !.workflow_run_id = Some(wid)]
                     ELSE wst.E[i]],
            !.created = @ + 1]

\* create_workflow(db, session_id, events, is_timeout): the WorkflowRun row, one
\* WorkflowStep per event with step_order = its index, and the events'
\* workflow_run_id.  wst: W workflow_runs, St workflow_steps, E events.
create_workflow(wst, session_id, evs, is_timeout) ==
    LET last == wst.E[evs[Len(evs)]]
        wid  == Len(wst.W) + 1
        run  == [session_id |-> session_id,
                 workflow_name |-> infer_workflow_name(wst.E, evs),
                 command_fingerprint |-> [j \in 1..Len(evs) |-> wst.E[evs[j]].cmd],
                 outcome |-> determine_outcome(last.exit,
                                               is_terminal_command(last.cmd),
                                               is_timeout),
                 started_at |-> wst.E[evs[1]].ts,
                 ended_at |-> last.ts,
                 duration_ms |-> workflow_duration_ms(wst.E, evs),
                 step_count |-> Len(evs)]
    IN  [wst EXCEPT
            !.W = Append(@, run),
            !.St = @ \cup { [workflow_run_id |-> wid, event_id |-> evs[j],
                             step_order |-> j - 1] : j \in 1..Len(evs) },
            !.E = [i \in 1..Len(wst.E) |->
                     IF \E j \in 1..Len(evs) : evs[j] = i
                     THEN [wst.E[i] EXCEPT !.workflow_run_id = Some(wid)]
                     ELSE wst.E[i]],
            !.created = @ + 1]

\* Variant of ShouldEndCurrent without the entry-command rule (C12 fails of
\* it).
ShouldEndCurrentNoEntry(E, buf, e) ==
    LET last_event == E[buf[Len(buf)]] IN
    \/ TimedOut(last_event.ts, E[e].ts)
    \/ (is_terminal_command(last_event.cmd) /\ last_event.exit # None)

\* should_end_current / should_start_new for an event met with a non-empty
\* buffer, lines 236-253: an entry command, a gap beyond the timeout, or a
\* previous event that is terminal with an exit code.
ShouldEndCurrent(E, buf, e) ==
    LET last_event == E[buf[Len(buf)]] IN
    \/ is_entry_command(E[e].cmd)
    \/ TimedOut(last_event.ts, E[e].ts)
    \/ (is_terminal_command(last_event.cmd) /\ last_event.exit # None)

\* One iteration of "for i, event in enumerate(events)", lines 229-265.
WorkflowEvent(wst, session_id, e) ==
    IF wst.buf = <<>> THEN [wst EXCEPT !.buf = <<e>>]
    ELSE IF ShouldEndCurrent(wst.E, wst.buf, e)
         THEN Bind(create_workflow(wst, session_id, wst.buf, FALSE),
                   LAMBDA made : [made EXCEPT !.buf = <<e>>])
         ELSE [wst EXCEPT !.buf = Append(@, e)]

RECURSIVE WorkflowLoop(_, _, _)
WorkflowLoop(wst, session_id, evs) ==
    IF evs = <<>> THEN wst
    ELSE Bind(WorkflowEvent(wst, session_id, Head(evs)),
              LAMBDA nxt : WorkflowLoop(nxt, session_id, Tail(evs)))

\* "Handle remaining events", lines 267-274.
Remaining(wst, session_id) ==
    IF wst.buf = <<>> THEN wst
    ELSE LET last_event == wst.E[wst.buf[Len(wst.buf)]]
         IN  [create_workflow(wst, session_id, wst.buf,
                              ~is_terminal_command(last_event.cmd))
                EXCEPT !.buf = <<>>]

\* One iteration of "for session_id, events in session_events.items()".
WorkflowSession(wst, entry) ==
    IF entry.evs = <<>> THEN wst
    ELSE Bind(SortByTs(wst.E, entry.evs), LAMBDA sorted :
         Bind(WorkflowLoop([wst EXCEPT !.buf = <<>>], entry.sid, sorted), LAMBDA done :
         Remaining(done, entry.sid)))

RECURSIVE WorkflowSessions(_, _)
WorkflowSessions(wst, sev) ==
    IF sev = <<>> THEN wst
    ELSE Bind(WorkflowSession(wst, Head(sev)),
              LAMBDA nxt : WorkflowSessions(nxt, Tail(sev)))

\* infer_workflows(db, session_events); .created is its return value.
infer_workflows(W, St, E, sev) ==
    WorkflowSessions([W |-> W, St |-> St, E |-> E, buf |-> <<>>, created |-> 0], sev)

\* ------------------------------------------------------------- run_inference
\* Variant of Unprocessed without the two filters of the query (C1 fails of
\* it).
UnprocessedUnfiltered(E, last_event_id) ==
    LET hit == SelectSeq([i \in 1..Len(E) |-> i], LAMBDA i : E[i].committed)
    IN  IF Len(hit) > FetchLimit THEN SubSeq(hit, 1, FetchLimit) ELSE hit

\* "Get unprocessed events": committed rows with id > last_event_id and
\* session_id NULL, by id, at most FetchLimit of them.
Unprocessed(E, last_event_id) ==
    LET hit == SelectSeq([i \in 1..Len(E) |-> i],
                         LAMBDA i : /\ E[i].committed
                                    /\ i > last_event_id
                                    /\ E[i].session_id = None)
    IN  IF Len(hit) > FetchLimit THEN SubSeq(hit, 1, FetchLimit) ELSE hit

SeqMax(ids) == MaxOf({ ids[j] : j \in 1..Len(ids) })

\* Lines 347-367: read the cursor, fetch; on no work the request returns zeros
\* and is over.
InferBegin(p) ==
    /\ inf[p].pc = "idle"
    /\ LET work == Unprocessed(events, cursor) IN
         inf' = [inf EXCEPT ![p] =
                    IF work = <<>> THEN Idle
                    ELSE [pc |-> "fetched", cursor |-> cursor, events |-> work]]
    /\ UNCHANGED <<events, sessions, workflows, steps, cursor, itx, ing>>
    /\ UNCHANGED expvars

\* Lines 371-385: sessionize, infer workflows, advance the cursor, commit.
InferCommit(p) ==
    /\ inf[p].pc = "fetched"
    /\ \E sst \in { sessionize_events(sessions, events, inf[p].events) } :
       \E wst \in { infer_workflows(workflows, steps, sst.E, sst.sev) } :
           /\ sessions' = sst.S
           /\ events' = wst.E
           /\ workflows' = wst.W
           /\ steps' = wst.St
           /\ cursor' = SeqMax(inf[p].events)
    /\ inf' = [inf EXCEPT ![p] = Idle]
    /\ UNCHANGED <<itx, ing>>
    /\ UNCHANGED expvars

\* ------------------------------------- run_inference, statement by statement
\* The same request in the steps of its transaction.  inf[p].tx holds what the
\* request's database session has written and flushed but not committed.
\*
\* Variant of Flushed in which a flush is visible at once, as under
\* autocommit (C15 fails of it).
FlushedAutocommit(committed, pending) == pending

\* What other transactions see of a table after this one has flushed rows to
\* it: the committed rows (sessionmaker(autocommit=False)).
Flushed(committed, pending) == committed

\* InferResponse(events_processed, sessions_created, sessions_updated,
\* workflows_created).
InferResponse(processed, created, updated, wf_created) ==
    [events_processed |-> processed, sessions_created |-> created,
     sessions_updated |-> updated, workflows_created |-> wf_created]

\* Lines 347-367 when the fetch is empty: the response of four zeros.
InferNoWork(p) ==
    /\ inf[p].pc = "idle"
    /\ Unprocessed(events, cursor) = <<>>
    /\ inf' = [inf EXCEPT ![p] =
                  [pc |-> "returned", cursor |-> cursor, events |-> <<>>,
                   response |-> InferResponse(0, 0, 0, 0)]]
    /\ UNCHANGED <<events, sessions, workflows, steps, cursor, itx, ing>>
    /\ UNCHANGED expvars

\* Line 372: session_events = sessionize_events(db, events).
InferSessionize(p) ==
    /\ inf[p].pc = "fetched"
    /\ \E sst \in { sessionize_events(sessions, events, inf[p].events) } :
          /\ inf' = [inf EXCEPT ![p] =
                        [pc |-> "sessionized", cursor |-> inf[p].cursor,
                         events |-> inf[p].events,
                         tx |-> [S |-> sst.S, E |-> sst.E, sev |-> sst.sev,
                                 W |-> workflows, St |-> steps]]]
          /\ sessions' = Flushed(sessions, sst.S)
    /\ UNCHANGED <<events, workflows, steps, cursor, itx, ing>>
    /\ UNCHANGED expvars

\* Line 378: workflows_created = infer_workflows(db, session_events).
InferWorkflows(p) ==
    /\ inf[p].pc = "sessionized"
    /\ \E wst \in { infer_workflows(inf[p].tx.W, inf[p].tx.St,
                                     inf[p].tx.E, inf[p].tx.sev) } :
          /\ inf' = [inf EXCEPT ![p] =
                        [pc |-> "inferred", cursor |-> inf[p].cursor,
                         events |-> inf[p].events,
                         tx |-> [inf[p].tx EXCEPT !.E = wst.E, !.W = wst.W,
                                                  !.St = wst.St],
                         workflows_created |-> wst.created]]
          /\ workflows' = Flushed(workflows, wst.W)
          /\ steps' = Flushed(steps, wst.St)
    /\ UNCHANGED <<events, sessions, cursor, itx, ing>>
    /\ UNCHANGED expvars

\* Lines 380-394: the cursor update and db.commit(): the rows written by the
\* request become the committed ones; of raw_events only the back-pointers of
\* the fetched events were written.  Then the response: sessions_created is the
\* number of keys of session_events, sessions_updated is always 0.
InferCommitTx(p) ==
    /\ inf[p].pc = "inferred"
    /\ sessions' = inf[p].tx.S
    /\ workflows' = inf[p].tx.W
    /\ steps' = inf[p].tx.St
    /\ events' = [i \in 1..Len(events) |->
                     IF \E j \in 1..Len(inf[p].events) : inf[p].events[j] = i
                     THEN [events[i] EXCEPT
                             !.session_id = inf[p].tx.E[i].session_id,
                             !.workflow_run_id = inf[p].tx.E[i].workflow_run_id]
                     ELSE events[i]]
    /\ cursor' = SeqMax(inf[p].events)
    /\ inf' = [inf EXCEPT ![p] =
                  [pc |-> "returned", cursor |-> inf[p].cursor, events |-> inf[p].events,
                   response |-> InferResponse(Len(inf[p].events), Len(inf[p].tx.sev),
                                              0, inf[p].workflows_created)]]
    /\ UNCHANGED <<itx, ing>>
    /\ UNCHANGED expvars

\* An exception at a statement between the fetch and the commit: run_inference
\* has no handler, the request ends with an error.
InferFail(p) ==
    /\ inf[p].pc \in {"fetched", "sessionized", "inferred"}
    /\ inf' = [inf EXCEPT ![p] = [@ EXCEPT !.pc = "failed"]]
    /\ UNCHANGED <<events, sessions, workflows, steps, cursor, itx, ing>>
    /\ UNCHANGED expvars

\* get_db's finally, after the response or the error: db.close() ends the
\* transaction, which drops what the request had flushed and not committed.
InferClose(p) ==
    /\ inf[p].pc \in {"failed", "returned"}
    /\ inf' = [inf EXCEPT ![p] = Idle]
    /\ UNCHANGED <<events, sessions, workflows, steps, cursor, itx, ing>>
    /\ UNCHANGED expvars

\* ------------------------------------------------------------ specifications
\* Infer requests one after the other.
InferSeq == InferBegin("p1") \/ InferCommit("p1")

\* Infer requests that may overlap.
InferAny == \E p \in InferProcs : InferBegin(p) \/ InferCommit(p)

\* Spec: ingest requests and non-overlapping infer requests, in any order; an
\* ingest may commit between an infer's fetch and its commit.
Next ==
    \/ \E inp \in EventInputs : ingest_events(inp)
    \/ InferSeq

Spec == Init /\ [][Next]_vars

\* SpecWorkflow: as Spec, over the inputs that workflow inference tells apart.
NextWorkflow ==
    \/ \E inp \in WorkflowInputs : ingest_events(inp)
    \/ InferSeq

SpecWorkflow == Init /\ [][NextWorkflow]_vars

\* SpecDuration: as Spec, over events that differ in timestamp, command and
\* duration_ms.
NextDuration ==
    \/ \E inp \in DurationInputs : ingest_events(inp)
    \/ InferSeq

SpecDuration == Init /\ [][NextDuration]_vars

\* SpecRecommend: as Spec, over events that differ in timestamp, command and
\* exit code.
NextRecommend ==
    \/ \E inp \in RecommendInputs : ingest_events(inp)
    \/ InferSeq

SpecRecommend == Init /\ [][NextRecommend]_vars

\* -------------------------------------------------------------- experiments
\* Rows of the experiments table the model may hold.
MaxExperiments == 2

ExperimentNames == {"exp1"}
ActorIds == {"alice", "bob"}

\* CreateExperimentRequest.variants: list[str], of any length, the empty
\* list included.
VariantLists == {<<>>, <<"control", "variant_a">>}

\* hashlib.sha256(actor_id.encode()).hexdigest()[:16], as hex digits.
Sha256Hex16(actor_id) ==
    IF actor_id = "alice"
    THEN <<2, 11, 13, 8, 0, 6, 12, 9, 7, 15, 0, 14, 0, 0, 10, 15>>
    ELSE <<8, 1, 11, 6, 3, 7, 13, 8, 15, 12, 13, 2, 12, 6, 13, 10>>

\* int(actor_hash, 16) % n, digit by digit.
RECURSIVE HexMod(_, _)
HexMod(digits, n) ==
    IF digits = <<>> THEN 0
    ELSE (16 * HexMod(SubSeq(digits, 1, Len(digits) - 1), n)
          + digits[Len(digits)]) % n

\* Variant of FindExperiment that looks among the active experiments only,
\* whatever the caller asks for (C25 fails of it).
FindActiveExperiment(name, tool_name, active_only) ==
    LET hit == { e \in 1..Len(experiments) :
                    /\ experiments[e].name = name
                    /\ experiments[e].tool_name = tool_name
                    /\ experiments[e].is_active }
    IN  IF hit = {} THEN 0 ELSE CHOOSE e \in hit : \A f \in hit : e <= f

\* db.query(Experiment).filter(name, tool_name[, is_active]).first(): the id
\* of the row, 0 for no row.
FindExperiment(name, tool_name, active_only) ==
    LET hit == { e \in 1..Len(experiments) :
                    /\ experiments[e].name = name
                    /\ experiments[e].tool_name = tool_name
                    /\ active_only => experiments[e].is_active }
    IN  IF hit = {} THEN 0 ELSE CHOOSE e \in hit : \A f \in hit : e <= f

\* db.query(VariantAssignment).filter(experiment_id, actor_id_hash).first().
FindAssignment(experiment_id, actor_hash) ==
    LET hit == { a \in 1..Len(variant_assignments) :
                    /\ variant_assignments[a].experiment_id = experiment_id
                    /\ variant_assignments[a].actor_id_hash = actor_hash }
    IN  IF hit = {} THEN 0 ELSE CHOOSE a \in hit : \A b \in hit : a <= b

\* Variant of AddAssignment that writes over the first stored row (C22 fails
\* of it).
MergeAssignment(rows, row) ==
    IF rows = <<>> THEN <<row>> ELSE [rows EXCEPT ![1] = row]

\* db.add(assignment); db.commit(): one more row.
AddAssignment(rows, row) == Append(rows, row)

\* How a handler answers before it reaches its queries: 401 from
\* verify_api_key without a key, 500 when api_key.tool_name is not an
\* attribute of ApiKey, 0 when it goes on.
EarlyStatus(key) ==
    IF key = None THEN 401
    ELSE IF ~ orm_tool_name THEN 500
    ELSE 0

Answer(op, key, name, status) ==
    [pc |-> "done", op |-> op, key |-> key, name |-> name, status |-> status]

\* POST /experiments, lines 50-57: the name is looked up for the caller's
\* tool; 400 when it exists.
create_experiment(r, key, name, variants) ==
    /\ xp[r].pc \in {"idle", "done"}
    /\ xp' = [xp EXCEPT ![r] =
                IF EarlyStatus(key) # 0
                THEN Answer("create", key, name, EarlyStatus(key))
                ELSE IF FindExperiment(name, KeyTool(Val(key)), FALSE) # 0
                THEN Answer("create", key, name, 400)
                ELSE [pc |-> "insert", op |-> "create", key |-> key,
                      name |-> name, variants |-> variants]]
    /\ UNCHANGED <<experiments, variant_assignments, returned, orm_tool_name>>
    /\ UNCHANGED <<events, sessions, workflows, steps, cursor, itx, inf, ing>>

\* Lines 59-77: the row is inserted and committed; the unique constraint on
\* (tool_name, name) of migration 004 refuses a second row (the commit raises,
\* 500).
CreateExperimentInsert(r) ==
    /\ xp[r].pc = "insert"
    /\ LET tool_name == KeyTool(Val(xp[r].key)) IN
       IF FindExperiment(xp[r].name, tool_name, FALSE) # 0
       THEN /\ xp' = [xp EXCEPT ![r] = Answer("create", xp[r].key, xp[r].name, 500)]
            /\ UNCHANGED experiments
       ELSE /\ Len(experiments) < MaxExperiments
            /\ experiments' = Append(experiments,
                                  [name |-> xp[r].name, tool_name |-> tool_name,
                                   variants |-> xp[r].variants, is_active |-> TRUE])
            /\ xp' = [xp EXCEPT ![r] =
                        [pc |-> "done", op |-> "create", key |-> xp[r].key,
                         name |-> xp[r].name, status |-> 200,
                         id |-> Len(experiments) + 1]]
    /\ UNCHANGED <<variant_assignments, returned, orm_tool_name>>
    /\ UNCHANGED <<events, sessions, workflows, steps, cursor, itx, inf, ing>>

\* GET /experiments/{name}/variant, lines 102-124: 404 without an active
\* experiment of that name for the caller's tool; the stored variant when the
\* actor has an assignment.
get_variant(r, key, name, actor_id) ==
    /\ xp[r].pc \in {"idle", "done"}
    /\ LET exp == FindExperiment(name, KeyTool(Val(key)), TRUE)
           actor_hash == Sha256Hex16(actor_id)
           assignment == FindAssignment(exp, actor_hash)
       IN  IF EarlyStatus(key) # 0
           THEN /\ xp' = [xp EXCEPT ![r] = Answer("variant", key, name, EarlyStatus(key))]
                /\ UNCHANGED returned
           ELSE IF exp = 0
           THEN /\ xp' = [xp EXCEPT ![r] = Answer("variant", key, name, 404)]
                /\ UNCHANGED returned
           ELSE IF assignment # 0
           THEN /\ xp' = [xp EXCEPT ![r] =
                            [pc |-> "done", op |-> "variant", key |-> key,
                             name |-> name, status |-> 200, actor_id |-> actor_id,
                             variant |-> variant_assignments[assignment].variant,
                             actor_id_hash |-> actor_hash]]
                /\ returned' = returned \cup
                       {<<KeyTool(Val(key)), name, actor_id,
                          variant_assignments[assignment].variant>>}
           ELSE /\ xp' = [xp EXCEPT ![r] =
                            [pc |-> "assign", op |-> "variant", key |-> key,
                             name |-> name, actor_id |-> actor_id, exp |-> exp]]
                /\ UNCHANGED returned
    /\ UNCHANGED <<experiments, variant_assignments, orm_tool_name>>
    /\ UNCHANGED <<events, sessions, workflows, steps, cursor, itx, inf, ing>>

\* Lines 126-143: variants[int(actor_hash, 16) % len(variants)] is inserted
\* and committed.  The modulo by an empty list's length raises
\* ZeroDivisionError (500); the unique constraint on (experiment_id,
\* actor_id_hash) of migration 003 refuses a second row (500).
GetVariantAssign(r) ==
    /\ xp[r].pc = "assign"
    /\ LET exp == experiments[xp[r].exp]
           actor_hash == Sha256Hex16(xp[r].actor_id)
       IN  IF Len(exp.variants) = 0 \/ FindAssignment(xp[r].exp, actor_hash) # 0
           THEN /\ xp' = [xp EXCEPT ![r] = Answer("variant", xp[r].key, xp[r].name, 500)]
                /\ UNCHANGED <<variant_assignments, returned>>
           ELSE LET variant == exp.variants[HexMod(actor_hash, Len(exp.variants)) + 1] IN
                /\ variant_assignments' =
                       AddAssignment(variant_assignments,
                              [experiment_id |-> xp[r].exp,
                               actor_id_hash |-> actor_hash, variant |-> variant])
                /\ xp' = [xp EXCEPT ![r] =
                            [pc |-> "done", op |-> "variant", key |-> xp[r].key,
                             name |-> xp[r].name, status |-> 200,
                             actor_id |-> xp[r].actor_id, variant |-> variant,
                             actor_id_hash |-> actor_hash]]
                /\ returned' = returned \cup
                       {<<KeyTool(Val(xp[r].key)), xp[r].name, xp[r].actor_id, variant>>}
    /\ UNCHANGED <<experiments, orm_tool_name>>
    /\ UNCHANGED <<events, sessions, workflows, steps, cursor, itx, inf, ing>>

\* POST /experiments/{name}/stop, lines 209-220: 404 without an experiment of
\* that name for the caller's tool, else is_active = False.
stop_experiment(r, key, name) ==
    /\ xp[r].pc \in {"idle", "done"}
    /\ LET exp == FindExperiment(name, KeyTool(Val(key)), FALSE) IN
       IF EarlyStatus(key) # 0
       THEN /\ xp' = [xp EXCEPT ![r] = Answer("stop", key, name, EarlyStatus(key))]
            /\ UNCHANGED experiments
       ELSE IF exp = 0
       THEN /\ xp' = [xp EXCEPT ![r] = Answer("stop", key, name, 404)]
            /\ UNCHANGED experiments
       ELSE /\ xp' = [xp EXCEPT ![r] = Answer("stop", key, name, 200)]
            /\ experiments' = [experiments EXCEPT ![exp].is_active = FALSE]
    /\ UNCHANGED <<variant_assignments, returned, orm_tool_name>>
    /\ UNCHANGED <<events, sessions, workflows, steps, cursor, itx, inf, ing>>

\* SpecExperiments: the experiments endpoints called with the keys of two
\* tools, two requests at a time, for the service with and without the
\* tool_name attributes.
InitExperiments == InitStore /\ orm_tool_name \in BOOLEAN

NextExperiments ==
    \/ \E r \in ExpProcs, k \in ApiKeys, name \in ExperimentNames,
          variants \in VariantLists : create_experiment(r, Some(k), name, variants)
    \/ \E r \in ExpProcs : CreateExperimentInsert(r)
    \/ \E r \in ExpProcs, k \in ApiKeys, name \in ExperimentNames,
          actor_id \in ActorIds : get_variant(r, Some(k), name, actor_id)
    \/ \E r \in ExpProcs : GetVariantAssign(r)
    \/ \E r \in ExpProcs, k \in ApiKeys, name \in ExperimentNames :
          stop_experiment(r, Some(k), name)

SpecExperiments == InitExperiments /\ [][NextExperiments]_vars

\* SpecBatch: ingest requests taken event by event, with bodies of several
\* events, two of them at a time, beside infer requests one after the other.
NextBatch ==
    \/ \E t \in IngestProcs, key \in KeyHeaders, payload \in Payloads :
          IngestRequest(t, key, payload)
    \/ \E t \in IngestProcs : IngestLoop(t)
    \/ \E t \in IngestProcs, db_ok \in BOOLEAN : IngestFinish(t, db_ok)
    \/ InferSeq

SpecBatch == Init /\ [][NextBatch]_vars

\* SpecTenant: the requests of callers of two tools, one ingest request at a
\* time, beside infer requests.
NextTenant ==
    \/ \E k \in ApiKeys, payload \in SeqsUpTo(TenantInputs, MaxBatch) \ {<<>>} :
          IngestRequest("i1", Some(k), payload)
    \/ IngestLoop("i1")
    \/ \E db_ok \in BOOLEAN : IngestFinish("i1", db_ok)
    \/ InferSeq

SpecTenant == Init /\ [][NextTenant]_vars

\* SpecSanitize: one ingest request of one event, over the command paths and
\* flags of SanitizeInputs.
IngestOne(ev) == events = <<>> /\ IngestRequest("i1", Some("keyA"), <<ev>>)

NextSanitize ==
    \/ \E ev \in SanitizeInputs : IngestOne(ev)
    \/ IngestLoop("i1")
    \/ \E db_ok \in BOOLEAN : IngestFinish("i1", db_ok)

SpecSanitize == Init /\ [][NextSanitize]_vars

\* SpecAtomic: ingest requests beside infer requests (one after the other)
\* taken statement by statement, any of which may fail before the commit.
NextAtomic ==
    \/ \E inp \in OverlapInputs : ingest_events(inp)
    \/ InferBegin("p1")
    \/ InferNoWork("p1")
    \/ InferSessionize("p1")
    \/ InferWorkflows("p1")
    \/ InferCommitTx("p1")
    \/ InferFail("p1")
    \/ InferClose("p1")

SpecAtomic == Init /\ [][NextAtomic]_vars

\* SpecOverlap: as Spec, with two infer requests that may overlap.
NextOverlap ==
    \/ \E inp \in OverlapInputs : ingest_events(inp)
    \/ InferAny

SpecOverlap == Init /\ [][NextOverlap]_vars

\* SpecInflight: ingest requests whose transactions are open side by side and
\* commit in any order, beside infer requests one after the other.  Infer keeps
\* being invoked and an ingest request that has flushed reaches its commit.
NextInflight ==
    \/ \E t \in IngestProcs :
          \/ \E inp \in InflightInputs : process_event(t, inp)
          \/ IngestCommit(t)
    \/ InferSeq

SpecInflight ==
    /\ Init /\ [][NextInflight]_vars
    /\ WF_vars(InferSeq)
    /\ \A t \in IngestProcs : WF_vars(IngestCommit(t))

\* ------------------------------------------------------------------- views
EventIds == 1..Len(events)

Sessionized == { i \in EventIds : events[i].session_id # None }

SessionOf(i) == Val(events[i].session_id)

WorkflowOf(i) == Val(events[i].workflow_run_id)

StepsOfEvent(i) == { st \in steps : st.event_id = i }

StepsOfRun(w) == { st \in steps : st.workflow_run_id = w }

RECURSIVE SumEventCount(_)
SumEventCount(S) ==
    IF S = <<>> THEN 0 ELSE S[1].event_count + SumEventCount(Tail(S))

\* existing_session never has to choose between two open sessions that
\* started at the same time.
ExistingSessionDetermined ==
    \A i \in EventIds :
        Cardinality(MostRecentOpen(sessions, <<events[i].actor, events[i].machine>>)) <= 1

\* -------------------------------------------------------------------- C1
\* C1: with non-overlapping infer requests, a back-pointer of a raw event that
\* is set is never changed or reset by a later step, and the events an infer
\* request has fetched are events without a session_id.
C1_BackPointersSetOnce ==
    [][ /\ \A i \in EventIds :
              /\ events[i].session_id # None
                    => events'[i].session_id = events[i].session_id
              /\ events[i].workflow_run_id # None
                    => events'[i].workflow_run_id = events[i].workflow_run_id
        /\ \A p \in InferProcs : \A j \in 1..Len(inf'[p].events) :
              events'[inf'[p].events[j]].session_id = None ]_vars

\* A later infer run has extended the session of an event processed before:
\* two events of one session in workflow runs of two different infer runs.
C1_Witness ==
    \E i, j \in Sessionized :
        /\ i < j
        /\ SessionOf(i) = SessionOf(j)
        /\ events[i].cmd = "plan" /\ events[j].cmd = "plan"
        /\ WorkflowOf(i) # WorkflowOf(j)

\* -------------------------------------------------------------------- C2
\* C2: when infer requests overlap, no raw event is processed by both: every
\* event is referenced by the workflow steps of at most one workflow run, and
\* the sessions' event counts count every sessionized event once.
C2_NoEventProcessedTwice ==
    /\ \A i \in EventIds : Cardinality(StepsOfEvent(i)) <= 1
    /\ SumEventCount(sessions) = Cardinality(Sessionized)

\* -------------------------------------------------------------------- C3
\* C3: the cursor's last_event_id never decreases, also with overlapping infer
\* requests, and it changes only in the step in which an infer request commits.
C3_CursorMonotonic ==
    [][ /\ cursor' >= cursor
        /\ cursor' # cursor =>
              \E p \in InferProcs : inf[p].pc = "fetched" /\ inf'[p].pc = "idle" ]_vars

\* -------------------------------------------------------------------- C4
\* C4: every raw event that ingestion commits is eventually given a session_id
\* (infer keeps being invoked), also when ingest transactions commit in another
\* order than their ids were assigned.
C4_CommittedEventuallySessionized ==
    \A i \in 1..MaxEvents :
        (i <= Len(events) /\ events[i].committed)
            ~> (i <= Len(events) /\ events[i].session_id # None)

\* -------------------------------------------------------------------- C5
\* C5: every event attached to a session has the session's actor_id_hash,
\* machine_id_hash, session_hint and ci_detected.
C5_SessionAttributesShared ==
    \A i \in Sessionized :
        LET s == sessions[SessionOf(i)] IN
        /\ s.actor = events[i].actor
        /\ s.machine = events[i].machine
        /\ s.session_hint = events[i].hint
        /\ s.ci_detected = events[i].ci

\* Two events of one pair that differ in hint or ci, and two of different
\* pairs, all sessionized; and a session with two events.
C5_Witness ==
    /\ \E s \in 1..Len(sessions) : sessions[s].event_count >= 2
    /\ \E i, j \in Sessionized :
          /\ events[i].actor = events[j].actor
          /\ events[i].hint # events[j].hint \/ events[i].ci # events[j].ci

\* -------------------------------------------------------------------- C6
\* C6: within a session, two events that are consecutive by timestamp are at
\* most the session timeout apart; and two events of one pair with the same
\* hint and ci that follow each other in the pair's events (by timestamp, then
\* id) and are exactly the timeout apart share a session.
ConsecutiveByTs(I, i, j) ==
    /\ events[i].ts < events[j].ts
    /\ ~ \E k \in I : events[i].ts < events[k].ts /\ events[k].ts < events[j].ts

Before(i, j) ==
    events[i].ts < events[j].ts \/ (events[i].ts = events[j].ts /\ i < j)

SamePair(i, j) ==
    events[i].actor = events[j].actor /\ events[i].machine = events[j].machine

C6_GapWithinTimeout ==
    /\ \A i, j \in Sessionized :
          (SessionOf(i) = SessionOf(j)
             /\ ConsecutiveByTs({ k \in Sessionized : SessionOf(k) = SessionOf(i) }, i, j))
          => events[j].ts - events[i].ts <= session_timeout_minutes
    /\ \A i, j \in Sessionized :
          (/\ SamePair(i, j)
           /\ events[i].hint = events[j].hint
           /\ events[i].ci = events[j].ci
           /\ Before(i, j)
           /\ ~ \E k \in Sessionized : SamePair(i, k) /\ Before(i, k) /\ Before(k, j)
           /\ events[j].ts - events[i].ts = session_timeout_minutes)
          => SessionOf(i) = SessionOf(j)

\* -------------------------------------------------------------------- C7
\* C7: a session's ended_at, when set, is not before its started_at.
C7_EndedNotBeforeStarted ==
    \A s \in 1..Len(sessions) :
        sessions[s].ended_at # None => Val(sessions[s].ended_at) >= sessions[s].started_at

\* -------------------------------------------------------------------- C8
\* C8: a raw event has no session_id iff it has no workflow_run_id, and a
\* sessionized event is a step of exactly one workflow run, the one its
\* workflow_run_id names.
C8_SessionIffWorkflow ==
    \A i \in EventIds :
        /\ events[i].session_id = None <=> events[i].workflow_run_id = None
        /\ events[i].session_id # None =>
              /\ Cardinality(StepsOfEvent(i)) = 1
              /\ \A st \in StepsOfEvent(i) : st.workflow_run_id = WorkflowOf(i)

\* Events processed by two infer runs beside a committed event not processed yet.
C8_Witness ==
    /\ Len(workflows) >= 2
    /\ \E i \in EventIds : events[i].committed /\ events[i].session_id = None

\* -------------------------------------------------------------------- C9
\* C9: no event of a session that belongs to another workflow run lies, by
\* timestamp, strictly between two events of one workflow run.
C9_WorkflowContiguous ==
    \A i, j, k \in Sessionized :
        (/\ SessionOf(i) = SessionOf(j) /\ SessionOf(j) = SessionOf(k)
         /\ WorkflowOf(i) = WorkflowOf(j)
         /\ WorkflowOf(k) # WorkflowOf(i))
        => ~ (events[i].ts < events[k].ts /\ events[k].ts < events[j].ts)

\* ------------------------------------------------------------------- C10
\* C10: a workflow run is SUCCESS iff its last event is terminal with exit code
\* 0, FAILED iff it is terminal with an exit code other than 0, and ABANDONED
\* otherwise.
LastEventOfRun(w) ==
    events[(CHOOSE st \in StepsOfRun(w) : st.step_order = workflows[w].step_count - 1).event_id]

StepOrderOf(i) == (CHOOSE st \in StepsOfEvent(i) : TRUE).step_order

SessionEvents(s) == { k \in Sessionized : SessionOf(k) = s }

FollowsInSession(i, j) ==
    /\ SessionOf(i) = SessionOf(j)
    /\ Before(i, j)
    /\ ~ \E k \in SessionEvents(SessionOf(i)) : Before(i, k) /\ Before(k, j)

ClosesWithExit(i) == events[i].cmd \in TERMINAL_COMMANDS /\ events[i].exit # None

\* A terminal event with an exit code is the last step of its workflow run,
\* and the run's outcome is that event's.
TerminalEventEndsRun ==
    \A i \in Sessionized : ClosesWithExit(i) =>
        /\ StepOrderOf(i) = workflows[WorkflowOf(i)].step_count - 1
        /\ workflows[WorkflowOf(i)].outcome =
              IF events[i].exit = Some(0) THEN "SUCCESS" ELSE "FAILED"

\* C11: a terminal event with an exit code is the last event of its workflow
\* run, whose outcome is taken from it, and the event that follows it in the
\* session starts a new workflow run (it is step 0 of another run).
C11_TerminalEventClosesWorkflow ==
    /\ TerminalEventEndsRun
    /\ \A i, j \in Sessionized :
          (ClosesWithExit(i) /\ FollowsInSession(i, j))
          => (WorkflowOf(j) # WorkflowOf(i) /\ StepOrderOf(j) = 0)

\* ------------------------------------------------------------------- C12
\* C12: an event whose last token is an entry command is step 0 of its
\* workflow run (an entry command met while a workflow is open closes it and
\* starts a new one).
C12_EntryCommandStartsWorkflow ==
    \A i \in Sessionized :
        events[i].cmd \in ENTRY_COMMANDS => StepOrderOf(i) = 0

\* init, plan, init in one session: the second init closed the open workflow
\* run [init, plan] and started the next run.
C12_Witness ==
    \E i, k, j \in Sessionized :
        /\ events[i].cmd = "init" /\ events[k].cmd = "plan" /\ events[j].cmd = "init"
        /\ events[i].ts < events[k].ts /\ events[k].ts < events[j].ts
        /\ SessionOf(i) = SessionOf(k) /\ SessionOf(k) = SessionOf(j)
        /\ WorkflowOf(k) = WorkflowOf(i) /\ StepOrderOf(k) = 1
        /\ WorkflowOf(j) = WorkflowOf(i) + 1
        /\ Len(workflows) = 2

\* ------------------------------------------------------------------- C13
\* C13: the steps of a workflow run with n steps carry the step_order values
\* 0..n-1, each once, in the order of the events' timestamps, and the run's
\* step_count is n.
C13_StepOrderDense ==
    \A w \in 1..Len(workflows) :
        LET n == Cardinality(StepsOfRun(w)) IN
        /\ workflows[w].step_count = n
        /\ \A o \in 0..(n - 1) :
              Cardinality({ st \in StepsOfRun(w) : st.step_order = o }) = 1
        /\ \A a, b \in StepsOfRun(w) :
              a.step_order < b.step_order
                 => events[a.event_id].ts <= events[b.event_id].ts

\* A workflow run of three steps whose events arrived in another order than
\* their timestamps.
C13_Witness ==
    \E w \in 1..Len(workflows) :
        /\ workflows[w].step_count = 3
        /\ \E a, b \in StepsOfRun(w) :
              /\ a.step_order < b.step_order
              /\ a.event_id > b.event_id
              /\ events[a.event_id].ts < events[b.event_id].ts

\* ------------------------------------------------------------------- C14
\* C14: once an inference run has processed an event, the cursor equals the
\* greatest id among the raw events that have a session_id.
C14_CursorIsMaxProcessed ==
    Sessionized # {} => cursor = MaxOf(Sessionized)

\* ------------------------------------------------------------------- C15
\* C15: the stored sessions, workflow runs, workflow steps, raw events (their
\* back-pointers) and the cursor change in no step of an infer request but
\* its commit: a request that fails before the commit leaves them unchanged.
C15_InferenceAtomic ==
    [][ \A p \in InferProcs :
          (inf'[p].pc # inf[p].pc /\ ~ (inf[p].pc = "inferred" /\ inf'[p].pc = "returned"))
          => <<sessions, workflows, steps, events, cursor>>'
               = <<sessions, workflows, steps, events, cursor>> ]_vars

\* A request failed after it had created a session and a workflow run with
\* its steps, while an earlier request's rows are stored.
C15_Witness ==
    \E p \in InferProcs :
        /\ inf[p].pc = "failed"
        /\ "tx" \in DOMAIN inf[p]
        /\ Len(sessions) >= 1
        /\ Len(inf[p].tx.S) > Len(sessions)
        /\ Len(inf[p].tx.W) > Len(workflows)
        /\ inf[p].tx.St # steps

FailsValidation(ev) == ~ ValidEventInput(ev) \/ FlushRaises(ev)

CountOf(q, P(_)) == Cardinality({ j \in 1..Len(q) : P(q[j]) })

\* C17: an authenticated batch holding events that pass and events that fail
\* validation, whose commit meets no database failure, is answered 200 with
\* accepted = the events that pass, rejected = the events that fail,
\* accepted + rejected = the events submitted, one event id per accepted
\* event, and the accepted events stored.
C17_BatchPartialSuccess ==
    \A t \in IngestProcs :
        ( /\ ing[t].pc = "done"
          /\ ing[t].key # None
          /\ ~ ing[t].commit_error
          /\ \E j \in 1..Len(ing[t].payload) : FailsValidation(ing[t].payload[j])
          /\ \E j \in 1..Len(ing[t].payload) : ~ FailsValidation(ing[t].payload[j]) )
        => /\ ing[t].status = 200
           /\ ing[t].accepted = CountOf(ing[t].payload, LAMBDA ev : ~ FailsValidation(ev))
           /\ ing[t].rejected = CountOf(ing[t].payload, FailsValidation)
           /\ ing[t].accepted + ing[t].rejected = Len(ing[t].payload)
           /\ ing[t].event_ids = ing[t].accepted
           /\ Cardinality({ i \in ing[t].rows : events[i].committed }) = ing[t].accepted

\* A body with an event that passes and one the database refuses: both
\* rejected in effect, nothing stored, status 500.
C17_Witness ==
    \E t \in IngestProcs :
        /\ ing[t].pc = "done"
        /\ ing[t].payload = <<GoodEvent, HugeExitCode>>
        /\ ~ ing[t].commit_error
        /\ ing[t].status = 500
        /\ ing[t].accepted = 1
        /\ \A i \in ing[t].rows : ~ events[i].committed

\* ---------------------------------------------------------------- claim C18
\* The rows of request t that other transactions see.
VisibleRows(t) == { i \in ing[t].rows : events[i].committed }

\* The commit of a batch is all-or-nothing: no row of the request is visible
\* before the commit or after a 500, all of them are after a 200.
BatchVisibleTogether ==
    \A t \in IngestProcs :
        ing[t].pc # "idle" =>
            /\ VisibleRows(t) = {} \/ VisibleRows(t) = ing[t].rows
            /\ ing[t].pc = "loop" => VisibleRows(t) = {}
            /\ ing[t].status = 500 => VisibleRows(t) = {}
            /\ ing[t].status = 200 =>
                  /\ VisibleRows(t) = ing[t].rows
                  /\ Cardinality(ing[t].rows) = ing[t].accepted

\* The events an infer request has fetched.
Fetched(p) == { inf[p].events[j] : j \in 1..Len(inf[p].events) }

\* C18: a batch is all-or-nothing at commit (none of its events stored and a
\* 500 when the commit fails, all accepted events visible together when it
\* succeeds), and an infer run that works on an event of a committed batch
\* works on the whole batch.
C18_BatchAllOrNothing ==
    /\ BatchVisibleTogether
    /\ \A t \in IngestProcs, p \in InferProcs :
          (ing[t].pc # "idle" /\ Fetched(p) \cap ing[t].rows # {})
          => ing[t].rows \subseteq Fetched(p)

\* ---------------------------------------------------------------- claim C19
\* C19: every raw event stored by an authenticated ingest request carries
\* the tool name of the caller's credential, whatever the body says.
C19_StoredToolIsCallersTool ==
    \A t \in IngestProcs :
        (ing[t].pc # "idle" /\ ing[t].key # None)
        => \A i \in VisibleRows(t) : events[i].tool_name = KeyTool(Val(ing[t].key))

\* ---------------------------------------------------------------- claim C20
\* The reports, as functions of the rows their queries read: EV raw_events,
\* SS sessions, WW workflow_runs (sets of ids).
RunsNamed(WW, workflow_name) ==
    { w \in WW : workflows[w].workflow_name = workflow_name }

RunsWithOutcome(WW, outcome) == { w \in WW : workflows[w].outcome = outcome }

\* round(success / total * 100, 2), in hundredths of a percent.
SuccessRate(success, total) ==
    IF total > 0 THEN (2 * 10000 * success + total) \div (2 * total) ELSE 0

\* One row of top_workflows; the median duration is not modelled.
WorkflowSummary(WW, workflow_name) ==
    LET runs == RunsNamed(WW, workflow_name)
        success == Cardinality(runs \cap RunsWithOutcome(WW, "SUCCESS"))
    IN  [workflow_name |-> workflow_name,
         total_runs |-> Cardinality(runs),
         success_count |-> success,
         failed_count |-> Cardinality(runs \cap RunsWithOutcome(WW, "FAILED")),
         abandoned_count |-> Cardinality(runs \cap RunsWithOutcome(WW, "ABANDONED")),
         success_rate |-> SuccessRate(success, Cardinality(runs))]

\* One row of failure_hot_paths: a fingerprint of failed runs, their number,
\* the name of the last of them.
FailureHotPath(WW, fp) ==
    LET failed == { w \in RunsWithOutcome(WW, "FAILED") :
                        workflows[w].command_fingerprint = fp }
    IN  [command_fingerprint |-> fp,
         failure_count |-> Cardinality(failed),
         workflow_name |-> workflows[MaxOf(failed)].workflow_name]

\* GET /reports/summary.  The limits of 10 rows are beyond the stores of the
\* model, so the lists are held as sets.
get_summary_report(EV, SS, WW) ==
    [total_events |-> Cardinality(EV),
     total_sessions |-> Cardinality(SS),
     total_workflows |-> Cardinality(WW),
     top_workflows |->
        { WorkflowSummary(WW, workflows[w].workflow_name) : w \in WW },
     failure_hot_paths |->
        { FailureHotPath(WW, workflows[w].command_fingerprint) :
            w \in RunsWithOutcome(WW, "FAILED") }]

\* GET /reports/workflows/{workflow_name}: 404 when no run has the name.
get_workflow_detail(WW, workflow_name) ==
    LET runs == RunsNamed(WW, workflow_name) IN
    IF runs = {} THEN [status |-> 404]
    ELSE [status |-> 200,
          workflow_name |-> workflow_name,
          total_runs |-> Cardinality(runs),
          success_rate |->
             SuccessRate(Cardinality(runs \cap RunsWithOutcome(WW, "SUCCESS")),
                         Cardinality(runs)),
          outcomes |-> [o \in {"SUCCESS", "FAILED", "ABANDONED"} |->
                           Cardinality(runs \cap RunsWithOutcome(WW, o))],
          common_paths |->
             { [path |-> workflows[w].command_fingerprint,
                count |-> Cardinality({ v \in runs :
                             workflows[v].command_fingerprint =
                             workflows[w].command_fingerprint })] : w \in runs },
          recent_runs |->
             { [id |-> w, outcome |-> workflows[w].outcome,
                started_at |-> workflows[w].started_at,
                step_count |-> workflows[w].step_count] : w \in runs }]

\* The rows the queries of a report read: every committed row of each table.
AllEvents == { i \in 1..Len(events) : events[i].committed }
AllSessions == 1..Len(sessions)
AllWorkflows == 1..Len(workflows)

\* The data of one tool: its events, and the sessions and runs they are in.
ToolEvents(tool) == { i \in AllEvents : events[i].tool_name = tool }
ToolSessions(tool) ==
    { s \in AllSessions : \E i \in ToolEvents(tool) : events[i].session_id = Some(s) }
ToolWorkflows(tool) ==
    { w \in AllWorkflows :
        \E i \in ToolEvents(tool) : events[i].workflow_run_id = Some(w) }

\* The names a workflow-detail report is asked for.
WorkflowNames ==
    { workflows[w].workflow_name : w \in AllWorkflows } \cup {<<"apply", "_workflow">>}

\* C20: the reports a caller of a tool gets are those of the store that holds
\* that tool's data alone: the data of other tools changes neither the
\* summary nor a workflow detail (404 included).
C20_ReportsScopedToTenant ==
    \A tool \in {ToolA, ToolB} :
        /\ get_summary_report(AllEvents, AllSessions, AllWorkflows)
             = get_summary_report(ToolEvents(tool), ToolSessions(tool),
                                  ToolWorkflows(tool))
        /\ \A name \in WorkflowNames :
              get_workflow_detail(AllWorkflows, name)
                = get_workflow_detail(ToolWorkflows(tool), name)

\* ---------------------------------------------------------------- claim C21
\* C21: no session and no workflow run holds events of two tool names.
C21_SessionsOfOneTool ==
    \A i, j \in 1..Len(events) :
        /\ (events[i].session_id # None /\ events[i].session_id = events[j].session_id)
              => events[i].tool_name = events[j].tool_name
        /\ (events[i].workflow_run_id # None
              /\ events[i].workflow_run_id = events[j].workflow_run_id)
              => events[i].tool_name = events[j].tool_name

\* ---------------------------------------------------------------- claim C22
\* C22: the variants get_variant has returned for one experiment and actor
\* are one variant, whatever was called in between, and no step changes or
\* removes a stored assignment row.
C22_VariantAssignmentStable ==
    [][ /\ \A x, y \in returned' :
              (x[1] = y[1] /\ x[2] = y[2] /\ x[3] = y[3]) => x[4] = y[4]
        /\ Len(variant_assignments') >= Len(variant_assignments)
        /\ \A a \in 1..Len(variant_assignments) :
              variant_assignments'[a] = variant_assignments[a] ]_vars

\* Both requests have answered the same experiment and actor, the second one
\* from the stored row, with an assignment of another actor beside it.
C22_Witness ==
    /\ xp["x1"].pc = "done" /\ xp["x1"].op = "variant" /\ xp["x1"].status = 200
    /\ xp["x2"].pc = "done" /\ xp["x2"].op = "variant" /\ xp["x2"].status = 200
    /\ xp["x1"].key = xp["x2"].key
    /\ xp["x1"].actor_id = xp["x2"].actor_id
    /\ xp["x1"].variant = xp["x2"].variant
    /\ Len(variant_assignments) >= 2

\* ---------------------------------------------------------------- claim C23
\* C23: the first get_variant call of an actor on an active experiment is
\* answered with variants[h mod len(variants)], h the value of the first 16
\* hex digits of SHA-256(actor_id), a member of the experiment's variants,
\* and that variant is stored for the actor.
C23_FirstCallAssignsByHash ==
    [][ \A r \in ExpProcs :
          ( /\ xp[r].pc = "assign"
            /\ xp'[r].pc = "done"
            /\ FindAssignment(xp[r].exp, Sha256Hex16(xp[r].actor_id)) = 0 )
          => LET variants == experiments[xp[r].exp].variants
                 h_mod == HexMod(Sha256Hex16(xp[r].actor_id), Len(variants))
             IN  /\ xp'[r].status = 200
                 /\ xp'[r].variant = variants[h_mod + 1]
                 /\ \E j \in 1..Len(variants) : xp'[r].variant = variants[j]
                 /\ \E a \in 1..Len(variant_assignments') :
                       variant_assignments'[a] =
                           [experiment_id |-> xp[r].exp,
                            actor_id_hash |-> Sha256Hex16(xp[r].actor_id),
                            variant |-> variants[h_mod + 1]] ]_vars

\* A first call on an experiment of two variants answered by the hash: alice
\* (hash 2bd806c97f0e00af, odd) gets the second variant.
C23_Witness ==
    \E r \in ExpProcs :
        /\ xp[r].pc = "done" /\ xp[r].op = "variant" /\ xp[r].status = 200
        /\ xp[r].actor_id = "alice"
        /\ xp[r].variant = "variant_a"

\* ---------------------------------------------------------------- claim C24
\* A request r starts a get_variant call in this step.
CallsGetVariant(r) ==
    /\ xp[r].pc \in {"idle", "done"}
    /\ xp'[r] # xp[r]
    /\ xp'[r].op = "variant"

\* No stopped experiment becomes active, and no new experiment takes the
\* name of a stopped one of the same tool.
StoppedStaysStopped ==
    /\ \A e \in 1..Len(experiments) :
          ~ experiments[e].is_active => ~ experiments'[e].is_active
    /\ \A e \in 1..Len(experiments), f \in 1..Len(experiments') :
          ( /\ ~ experiments[e].is_active
            /\ experiments'[f].name = experiments[e].name
            /\ experiments'[f].tool_name = experiments[e].tool_name )
          => ~ experiments'[f].is_active

\* The handler's logic alone, for the service whose ApiKey and Experiment
\* carry tool_name: a call that finds no active experiment of the name for
\* the caller's tool answers 404 and writes nothing, and a stopped
\* experiment stays stopped.
NotFoundWithToolName ==
    [][ orm_tool_name =>
          \A r \in ExpProcs :
             ( /\ CallsGetVariant(r)
               /\ FindExperiment(xp'[r].name, KeyTool(Val(xp'[r].key)), TRUE) = 0 )
             => /\ xp'[r].status = 404
                /\ variant_assignments' = variant_assignments
        /\ StoppedStaysStopped ]_vars

\* C24: a get_variant call for a name that has no active experiment of the
\* caller's tool (none, another tool's, a stopped one, also for an actor who
\* holds an assignment) answers 404 and writes no assignment row; a stopped
\* experiment never becomes active again.
C24_InactiveExperimentNotFound ==
    [][ /\ \A r \in ExpProcs :
             ( /\ CallsGetVariant(r)
               /\ FindExperiment(xp'[r].name, KeyTool(Val(xp'[r].key)), TRUE) = 0 )
             => /\ xp'[r].pc = "done"
                /\ xp'[r].status = 404
                /\ variant_assignments' = variant_assignments
        /\ StoppedStaysStopped ]_vars

\* A 404 for an actor who got a variant before the experiment was stopped.
C24_Witness ==
    \E r \in ExpProcs :
        /\ xp[r].pc = "done" /\ xp[r].op = "variant" /\ xp[r].status = 404
        /\ \E e \in 1..Len(experiments), a \in 1..Len(variant_assignments) :
              /\ experiments[e].name = xp[r].name
              /\ experiments[e].tool_name = KeyTool(Val(xp[r].key))
              /\ ~ experiments[e].is_active
              /\ variant_assignments[a].experiment_id = e

SubmittedPath(t) == ing[t].payload[1].command_path

\* C26: every stored event is sanitized: no flag holds "=" or ":" or a
\* blocked word, every command token is "[REDACTED]" or made of [a-z0-9_-],
\* the command path has as many tokens as the submitted one, each at its
\* place (a token that is not redacted is the submitted one stripped and
\* lowercased), and both hashes are 16 hex characters.
C26_StoredEventSanitized ==
    \A t \in IngestProcs :
        (ing[t].pc # "idle" /\ Len(ing[t].payload) = 1) =>
            \A i \in VisibleRows(t) :
                /\ \A f \in 1..Len(events[i].flags_present) :
                      /\ \A k \in 1..Len(events[i].flags_present[f]) :
                            events[i].flags_present[f][k] \notin {"=", ":"}
                      /\ ~ Blocked(events[i].flags_present[f])
                /\ \A c \in 1..Len(events[i].command_path) :
                      \/ events[i].command_path[c] = Redacted
                      \/ \A k \in 1..Len(events[i].command_path[c]) :
                            events[i].command_path[c][k]
                                \in LowerLetters \cup Digits \cup {"_", "-"}
                /\ Len(events[i].command_path) = Len(SubmittedPath(t))
                /\ \A c \in 1..Len(events[i].command_path) :
                      \/ events[i].command_path[c] = Redacted
                      \/ events[i].command_path[c] = lower(strip(SubmittedPath(t)[c]))
                /\ Len(events[i].actor_id_hash) = 16
                /\ Len(events[i].machine_id_hash) = 16
                /\ \A k \in 1..16 :
                      /\ events[i].actor_id_hash[k] \in HexChars
                      /\ events[i].machine_id_hash[k] \in HexChars

\* ---------------------------------------------------------------- claim C27
\* The name of a flag: what stands before its first "=" or ":", trimmed.
CutName(flag) ==
    LET at == { i \in 1..Len(flag) : flag[i] \in {"=", ":"} }
        upto == IF at = {} THEN Len(flag)
                ELSE (CHOOSE i \in at : \A j \in at : i <= j) - 1
    IN  strip(SubSeq(flag, 1, upto))

\* The names of flags, in input order, that start with one of the numbers of
\* dashes in Dashes, go on as [A-Za-z][A-Za-z0-9_-]* and hold no blocked word.
KeptNames(flags, Dashes) ==
    LET names == [i \in 1..Len(flags) |-> CutName(flags[i])]
        keep(n) == /\ \E d \in Dashes : NameAfterDashes(n, d)
                   /\ ~ Blocked(n)
    IN  SelectSeq(names, keep)

\* The flags of the one event of a request body, as submitted.
SubmittedFlags(t) == ing[t].payload[1].flags_present

\* C27 as stated: sanitize_flags keeps exactly the names with zero, one or
\* two leading dashes followed by [A-Za-z][A-Za-z0-9_-]* and no blocked
\* word, in input order with the values cut.
C27_KeepsZeroToTwoDashes ==
    \A t \in IngestProcs :
        (ing[t].pc # "idle" /\ Len(ing[t].payload) = 1) =>
            /\ sanitize_flags(SubmittedFlags(t)) = KeptNames(SubmittedFlags(t), 0..2)
            /\ \A i \in VisibleRows(t) :
                  events[i].flags_present = KeptNames(SubmittedFlags(t), 0..2)

\* C27 amended: sanitize_flags keeps exactly the names with one or two
\* leading dashes followed by [A-Za-z][A-Za-z0-9_-]* and no blocked word, in
\* input order with the values cut; every other flag is dropped.
C27_KeepsOneOrTwoDashes ==
    \A t \in IngestProcs :
        (ing[t].pc # "idle" /\ Len(ing[t].payload) = 1) =>
            /\ sanitize_flags(SubmittedFlags(t)) = KeptNames(SubmittedFlags(t), 1..2)
            /\ \A i \in VisibleRows(t) :
                  events[i].flags_present = KeptNames(SubmittedFlags(t), 1..2)

\* A stored event submitted with a flag without dashes and a flag with a
\* value: the first is dropped, the second kept without its value.
C27_Witness ==
    \E t \in IngestProcs :
        /\ ing[t].pc # "idle" /\ Len(ing[t].payload) = 1
        /\ SubmittedFlags(t) = << <<"v", "e", "r", "b", "o", "s", "e">>,
                                  <<"-", "-", "o", "u", "t", "=", "x">> >>
        /\ \E i \in VisibleRows(t) :
              events[i].flags_present = << <<"-", "-", "o", "u", "t">> >>

\* ---------------------------------------------------------------- claim C28
\* The events of a workflow run.
RunEvents(w) == { i \in 1..Len(events) : events[i].workflow_run_id = Some(w) }

\* C28: a workflow run of two or more events has duration_ms = ended_at -
\* started_at in milliseconds; a run of one event has that event's
\* duration_ms whenever it is present, 0 included, and null only when the
\* event has none.
C28_WorkflowDuration ==
    \A w \in 1..Len(workflows) :
        /\ workflows[w].step_count >= 2 =>
              workflows[w].duration_ms =
                  Some((workflows[w].ended_at - workflows[w].started_at) * MsPerMinute)
        /\ workflows[w].step_count = 1 =>
              \A i \in RunEvents(w) :
                  workflows[w].duration_ms = events[i].duration_ms

\* A run of one event whose duration_ms is 0.
C28_Witness ==
    \E w \in 1..Len(workflows) :
        /\ workflows[w].step_count = 1
        /\ \E i \in RunEvents(w) : events[i].duration_ms = Some(0)

\* ---------------------------------------------------------------- claim C29
\* get_recommendations, "Analyze sequences".  The rows of events_by_workflow:
\* the committed events with a workflow_run_id, ordered by workflow_run_id
\* and timestamp; rows equal in both come in any order.
EventsByWorkflow ==
    LET ids == { i \in EventIds : events[i].committed /\ events[i].workflow_run_id # None }
    IN  { ord \in [1..Cardinality(ids) -> ids] :
            /\ \A j, k \in DOMAIN ord : j # k => ord[j] # ord[k]
            /\ \A j, k \in DOMAIN ord : j < k =>
                  \/ WorkflowOf(ord[j]) < WorkflowOf(ord[k])
                  \/ /\ WorkflowOf(ord[j]) = WorkflowOf(ord[k])
                     /\ events[ord[j]].ts <= events[ord[k]].ts }

\* command_pairs[key] += 1 under "success" or "fail", the key added at 0 and 0
\* when it is new.
CountPair(command_pairs, key, exit_code) ==
    LET had == IF key \in DOMAIN command_pairs THEN command_pairs[key]
               ELSE [success |-> 0, fail |-> 0]
        now == IF exit_code = Some(0) THEN [had EXCEPT !.success = @ + 1]
               ELSE [had EXCEPT !.fail = @ + 1]
    IN  [k \in DOMAIN command_pairs \cup {key} |->
            IF k = key THEN now ELSE command_pairs[k]]

\* Variant of PairLoop that keeps prev_cmd when the workflow changes (C29
\* fails of it).
RECURSIVE PairLoopAcrossWorkflows(_, _, _, _)
PairLoopAcrossWorkflows(rows, current_wf, prev_cmd, command_pairs) ==
    IF rows = <<>> THEN command_pairs
    ELSE LET row == events[Head(rows)]
             cmd == row.cmd
             counted == IF cmd # "" /\ prev_cmd # ""
                        THEN CountPair(command_pairs, <<prev_cmd, cmd>>, row.exit)
                        ELSE command_pairs
         IN  PairLoopAcrossWorkflows(Tail(rows), row.workflow_run_id, cmd, counted)

\* "for wf_id, cmd_path, exit_code in events_by_workflow", lines 56-71.  A
\* command that is None or empty is "".
RECURSIVE PairLoop(_, _, _, _)
PairLoop(rows, current_wf, prev_cmd, command_pairs) ==
    IF rows = <<>> THEN command_pairs
    ELSE LET row == events[Head(rows)]
             cmd == row.cmd
             prev == IF row.workflow_run_id # current_wf THEN "" ELSE prev_cmd
             counted == IF cmd # "" /\ prev # ""
                        THEN CountPair(command_pairs, <<prev, cmd>>, row.exit)
                        ELSE command_pairs
         IN  PairLoop(Tail(rows), row.workflow_run_id, cmd, counted)

\* command_pairs after the loop over the rows in the order ord.
CommandPairs(ord) == PairLoop(ord, None, "", <<>>)

\* The places of the order ord where a command of one workflow run is
\* followed by the command prev -> curr of the same run.
AdjacentInRun(ord, prev, curr) ==
    { k \in 1..(Len(ord) - 1) :
        /\ WorkflowOf(ord[k]) = WorkflowOf(ord[k + 1])
        /\ events[ord[k]].cmd = prev
        /\ events[ord[k + 1]].cmd = curr }

\* C29: the transition map counts exactly the adjacent (prev, curr) command
\* pairs inside one workflow run, in timestamp order: a pair is in the map
\* when it occurs, success + fail is the number of its occurrences, success
\* the number of those whose curr event has exit code 0; the last event of
\* one run and the first of the next are no pair.
C29_TransitionMapCountsAdjacentPairs ==
    \A ord \in EventsByWorkflow :
        /\ DOMAIN CommandPairs(ord) \subseteq Commands \X Commands
        /\ \A prev, curr \in Commands :
            LET occ == AdjacentInRun(ord, prev, curr)
                key == <<prev, curr>>
            IN  /\ key \in DOMAIN CommandPairs(ord) <=> occ # {}
                /\ occ # {} =>
                      /\ CommandPairs(ord)[key].success + CommandPairs(ord)[key].fail
                            = Cardinality(occ)
                      /\ CommandPairs(ord)[key].success =
                            Cardinality({ k \in occ : events[ord[k + 1]].exit = Some(0) })

\* Two workflow runs, a pair counted inside one of them, and commands on both
\* sides of the boundary between them.
C29_Witness ==
    \E ord \in EventsByWorkflow :
        /\ DOMAIN CommandPairs(ord) # {}
        /\ \E k \in 1..(Len(ord) - 1) :
              /\ WorkflowOf(ord[k]) # WorkflowOf(ord[k + 1])
              /\ events[ord[k]].cmd # "" /\ events[ord[k + 1]].cmd # ""

\* ---------------------------------------------------------------- claim C30
\* The commit of an infer request, with its response.
InferReturns(p) == inf[p].pc = "inferred" /\ inf'[p].pc = "returned"

\* The events the run gave a session_id.
GivenSession == { i \in EventIds : events[i].session_id = None /\ events'[i].session_id # None }

\* C30: the infer response reports what the run did: events_processed is
\* the number of events given a session_id in the run, sessions_created the
\* number of session rows the run created (a session continued from an
\* earlier run is not one), workflows_created the number of workflow rows it
\* created.
C30_InferResponseCounts ==
    [][ \A p \in InferProcs :
          InferReturns(p) =>
              /\ inf'[p].response.events_processed = Cardinality(GivenSession)
              /\ inf'[p].response.sessions_created = Len(sessions') - Len(sessions)
              /\ inf'[p].response.workflows_created = Len(workflows') - Len(workflows)
      ]_vars

\* A response that counts a session although the run created no session row:
\* its events went to a session of an earlier run.
C30_Witness ==
    \E p \in InferProcs :
        /\ inf[p].pc = "returned"
        /\ inf[p].events # <<>>
        /\ inf[p].response.sessions_created = 1
        /\ Len(sessions) = 1
        /\ \E i \in EventIds :
              /\ events[i].session_id = Some(1)
              /\ \A j \in 1..Len(inf[p].events) : inf[p].events[j] # i

\* ---------------------------------------------------------------- claim C31
\* An event row without its back-pointers.
EventData(ev) == [ev EXCEPT !.session_id = None, !.workflow_run_id = None]

\* The commit of the infer request p.
InferCommits(p) == inf[p].pc = "fetched" /\ inf'[p].pc # "fetched"

\* C31: ingestion and inference write disjoint state.  An infer run adds and
\* removes no event, changes no attribute of an event but session_id and
\* workflow_run_id, and those only of events whose id exceeds the cursor it
\* read; an ingest only adds events with null back-pointers and leaves the
\* existing events, the sessions, the workflows, the steps and the cursor
\* unchanged; no other step writes any of them.
C31_IngestAndInferWriteDisjointState ==
    [][ /\ \A p \in InferProcs :
             InferCommits(p) =>
                 /\ Len(events') = Len(events)
                 /\ \A i \in 1..Len(events) :
                       /\ EventData(events'[i]) = EventData(events[i])
                       /\ i <= inf[p].cursor => events'[i] = events[i]
        /\ Len(events') # Len(events) =>
                 /\ Len(events') > Len(events)
                 /\ SubSeq(events', 1, Len(events)) = events
                 /\ \A i \in (Len(events) + 1)..Len(events') :
                       /\ events'[i].session_id = None
                       /\ events'[i].workflow_run_id = None
                 /\ <<sessions, workflows, steps, cursor>>'
                       = <<sessions, workflows, steps, cursor>>
        /\ <<events, sessions, workflows, steps, cursor>>'
               # <<events, sessions, workflows, steps, cursor>>
             => \/ Len(events') > Len(events)
                \/ \E p \in InferProcs : InferCommits(p)
      ]_vars

\* A second infer run has fetched after reading a cursor left by an earlier
\* run whose events are sessionized, an event having been ingested since.
C31_Witness ==
    \E p \in InferProcs :
        /\ inf[p].pc = "fetched"
        /\ inf[p].cursor >= 1
        /\ \A i \in 1..inf[p].cursor :
              events[i].session_id # None /\ events[i].workflow_run_id # None
        /\ Len(events) > inf[p].cursor
        /\ events[Len(events)].session_id = None

\* ---------------------------------------------------------------- claim C32
\* The events of the session s.
EventsOfSession(s) == { i \in EventIds : events[i].session_id = Some(s) }

\* C32: after any number of completed inference runs every session's
\* event_count is the number of raw events whose session_id is the session's
\* id, sessions opened in one run and extended or closed in a later one
\* included.
C32_EventCountMatchesEvents ==
    \A s \in 1..Len(sessions) :
        sessions[s].event_count = Cardinality(EventsOfSession(s))

\* A session that holds events of two runs, and a session closed by a run
\* later than the one that opened it.
C32_Witness ==
    /\ \E s \in 1..Len(sessions) :
          \E i, j \in EventsOfSession(s) :
              WorkflowOf(i) # WorkflowOf(j) /\ events[i].ts = events[j].ts
    /\ cursor = Len(events)

\* ---------------------------------------------------------------- claim C33
\* The (actor, machine) pair of an event.
PairOf(i) == <<events[i].actor, events[i].machine>>

\* The first event of the partition of the pair k among the fetched events
\* ids: the earliest, of the events of one timestamp the one fetched first.
FirstOfPartition(ids, k) ==
    { i \in ids :
        /\ PairOf(i) = k
        /\ \A j \in ids \ {i} :
              PairOf(j) = k =>
                  \/ events[i].ts < events[j].ts
                  \/ (events[i].ts = events[j].ts /\ i < j) }

\* The distance of two timestamps.
Distance(a, b) == IF a >= b THEN a - b ELSE b - a

\* The rule of continuation at the commit of an infer run, for every pair
\* with fetched events and an open session that has events: the gap of the
\* first event of the partition to the latest event of the session is the
\* distance of the two timestamps, or (forward) the time from the latest
\* event to the first event, negative when the first event is the older.
ContinuationRule(p, forward) ==
    LET ids == { inf[p].events[j] : j \in 1..Len(inf[p].events) } IN
    \A i \in ids :
        i \in FirstOfPartition(ids, PairOf(i)) =>
            \A x \in MostRecentOpen(sessions, PairOf(i)) :
                LET maxts == MaxOf({ events[e].ts : e \in EventsOfSession(x) })
                    gap == IF forward THEN events[i].ts - maxts
                           ELSE Distance(events[i].ts, maxts)
                    same == /\ sessions[x].session_hint = events[i].hint
                            /\ sessions[x].ci_detected = events[i].ci
                IN  (EventsOfSession(x) # {} /\ Cardinality(MostRecentOpen(sessions, PairOf(i))) = 1) =>
                        IF same /\ gap <= session_timeout_minutes
                        THEN /\ events'[i].session_id = Some(x)
                             /\ Cardinality(ids) = 1 => Len(sessions') = Len(sessions)
                        ELSE /\ sessions'[x].ended_at = Some(maxts)
                             /\ events'[i].session_id # None
                             /\ Val(events'[i].session_id) > Len(sessions)

\* C33: an open session is continued across runs: when the first event of a
\* pair's partition in a run has the hint and ci of the pair's most recent
\* open session and its gap to the latest event attached to that session is
\* at most the timeout, it gets the session's id and no session is created;
\* otherwise the session is closed with ended_at = that latest timestamp
\* and a new session is created.
C33_OpenSessionContinuedAcrossRuns ==
    [][ \A p \in InferProcs : InferCommits(p) => ContinuationRule(p, FALSE) ]_vars

\* The session of an earlier run is open with its latest event at 70, and
\* the run at hand has fetched an event of the same pair, hint and ci at 0.
C33_Witness ==
    \E p \in InferProcs :
        /\ inf[p].pc = "fetched"
        /\ \E j \in 1..Len(inf[p].events) :
              \E x \in MostRecentOpen(sessions, PairOf(inf[p].events[j])) :
                  /\ sessions[x].session_hint = events[inf[p].events[j]].hint
                  /\ sessions[x].ci_detected = events[inf[p].events[j]].ci
                  /\ EventsOfSession(x) # {}
                  /\ \A e \in EventsOfSession(x) : events[e].ts = 70
                  /\ events[inf[p].events[j]].ts = 0

\* ---------------------------------------------------------------- claim C34
\* The pairs that have sessions.
SessionPairs == { <<sessions[s].actor, sessions[s].machine>> : s \in 1..Len(sessions) }

\* C34: after any number of completed infer runs, one after the other,
\* there is at most one open session per (actor_id_hash, machine_id_hash): a
\* run that creates a session for a pair has given the pair's earlier open
\* session an ended_at.
C34_OneOpenSessionPerPair ==
    \A k \in SessionPairs : Cardinality(OpenSessions(sessions, k)) <= 1

\* A pair with a closed session and an open one created after it.
C34_Witness ==
    \E s, r \in 1..Len(sessions) :
        /\ s < r
        /\ sessions[s].actor = sessions[r].actor
        /\ sessions[s].machine = sessions[r].machine
        /\ sessions[s].ended_at # None
        /\ sessions[r].ended_at = None

\* ---------------------------------------------------------------- claim C35
\* C35: a closed session is frozen: once its ended_at is set, no later infer
\* run attaches an event to it, changes its event_count or its ended_at, or
\* reopens it.
C35_ClosedSessionFrozen ==
    [][ \A s \in 1..Len(sessions) :
          sessions[s].ended_at # None =>
              /\ Len(sessions') >= s
              /\ sessions'[s] = sessions[s]
              /\ \A i \in 1..Len(events') :
                    events'[i].session_id = Some(s) =>
                        (i <= Len(events) /\ events[i].session_id = Some(s))
      ]_vars

\* A session closed by the timeout (its successor has the same pair, hint
\* and ci), while the successor is open and has received two events in
\* workflow runs of their own.
C35_Witness ==
    \E s, r \in 1..Len(sessions) :
        /\ s < r
        /\ sessions[s].actor = sessions[r].actor
        /\ sessions[s].machine = sessions[r].machine
        /\ sessions[s].session_hint = sessions[r].session_hint
        /\ sessions[s].ci_detected = sessions[r].ci_detected
        /\ sessions[s].ended_at # None
        /\ sessions[r].ended_at = None
        /\ sessions[r].event_count = 2
        /\ Len(workflows) = 3

\* ---------------------------------------------------------------- claim C36
\* C36: after any number of completed infer runs, workflow runs, steps and
\* events agree: an event with workflow_run_id W has exactly one step, and
\* that step is in W; every step of W points to an event whose
\* workflow_run_id is W; W.step_count is the number of such events; every
\* event of W has W's session_id.
C36_RunsStepsEventsAgree ==
    /\ \A i \in EventIds :
          events[i].workflow_run_id # None =>
              /\ Cardinality(StepsOfEvent(i)) = 1
              /\ \A st \in StepsOfEvent(i) : st.workflow_run_id = WorkflowOf(i)
    /\ \A st \in steps :
          /\ st.event_id \in EventIds
          /\ events[st.event_id].workflow_run_id = Some(st.workflow_run_id)
    /\ \A w \in 1..Len(workflows) :
          /\ workflows[w].step_count = Cardinality(RunEvents(w))
          /\ \A i \in RunEvents(w) :
                events[i].session_id = Some(workflows[w].session_id)

\* Both runs of two overlapping infer requests have completed, and an event
\* has steps in two workflow runs.
C36_Witness ==
    /\ \A p \in InferProcs : inf[p].pc = "idle"
    /\ \E i \in EventIds : Cardinality(StepsOfEvent(i)) = 2

\* ---------------------------------------------------------------- claim C37
\* The rows of variant_assignments of one experiment and actor.
AssignmentsOf(rows, experiment_id, actor_hash) ==
    { a \in 1..Len(rows) :
        /\ rows[a].experiment_id = experiment_id
        /\ rows[a].actor_id_hash = actor_hash }

\* The get_variant call r, which found no assignment at its lookup, ends.
FirstCallEnds(r) ==
    /\ xp[r].pc = "assign" /\ xp'[r].pc = "done"
    /\ experiments[xp[r].exp].variants # <<>>

\* C37: when two get_variant calls for one (experiment, actor) without a
\* stored assignment overlap, exactly one assignment row exists afterwards
\* and both calls return the same variant: a call that found no assignment
\* at its lookup ends with one row stored for the pair and answers that
\* row's variant, also when the other call has stored the row meanwhile.
C37_OverlappingFirstCallsAgree ==
    [][ \A r \in ExpProcs :
          FirstCallEnds(r) =>
              LET rows == AssignmentsOf(variant_assignments', xp[r].exp,
                                        Sha256Hex16(xp[r].actor_id))
              IN  /\ Cardinality(rows) = 1
                  /\ xp'[r].status = 200
                  /\ \A a \in rows : xp'[r].variant = variant_assignments'[a].variant
      ]_vars

\* Two calls for one experiment and actor have ended, one with the variant
\* and one with an error, and one row is stored for the pair.
C37_Witness ==
    /\ xp["x1"].pc = "done" /\ xp["x2"].pc = "done"
    /\ xp["x1"].op = "variant" /\ xp["x2"].op = "variant"
    /\ xp["x1"].key = xp["x2"].key /\ xp["x1"].name = xp["x2"].name
    /\ xp["x1"].status = 200 /\ xp["x2"].status = 500
    /\ orm_tool_name
    /\ Cardinality(AssignmentsOf(variant_assignments, 1, xp["x1"].actor_id_hash)) = 1

\* ---------------------------------------------------------------- claim C38
\* A submitted command path without a token that is not the empty string.
OnlyEmptyStrings(path) == \A c \in 1..Len(path) : path[c] = <<>>

\* C38: every raw event stored by ingestion has a command_path that is not
\* empty: a request whose command_path is empty or holds only empty strings
\* is rejected and stores no event.
C38_StoredCommandPathNotEmpty ==
    /\ \A i \in EventIds :
          events[i].committed => Len(events[i].command_path) >= 1
    /\ \A t \in IngestProcs :
          (ing[t].pc # "idle" /\ Len(ing[t].payload) = 1
                             /\ OnlyEmptyStrings(SubmittedPath(t)))
              => VisibleRows(t) = {}

\* A request whose command path is one empty string has been answered, and
\* its event is stored and committed.
C38_Witness ==
    \E t \in IngestProcs :
        /\ ing[t].pc # "idle" /\ Len(ing[t].payload) = 1
        /\ SubmittedPath(t) = << <<>> >>
        /\ VisibleRows(t) # {}

\* ---------------------------------------------------------------- claim C39
\* The stored events as they were ingested: without back-pointers.
AsIngested == [i \in EventIds |-> EventData(events[i])]

\* One infer run over all the stored events, from an empty store of
\* sessions and workflow runs: .E the events, .W the workflow runs.
InferOnce ==
    Bind(sessionize_events(<<>>, AsIngested, [i \in EventIds |-> i]), LAMBDA sst :
         infer_workflows(<<>>, {}, sst.E, sst.sev))

\* The grouping of the events E into sessions: the sets of events of one
\* session_id.
SessionGrouping(E) ==
    { { j \in 1..Len(E) : E[j].session_id = E[i].session_id } :
        i \in { i \in 1..Len(E) : E[i].session_id # None } }

\* The grouping of the events E into the workflow runs W, each with its
\* outcome, name, step count and fingerprint.
WorkflowGrouping(E, W) ==
    { [evs |-> { i \in 1..Len(E) : E[i].workflow_run_id = Some(w) },
       outcome |-> W[w].outcome,
       workflow_name |-> W[w].workflow_name,
       step_count |-> W[w].step_count,
       command_fingerprint |-> W[w].command_fingerprint] : w \in 1..Len(W) }

\* Every stored event is processed, no infer run is under way, and the
\* events were ingested in timestamp order.
AllInferredInOrder ==
    /\ events # <<>>
    /\ \A p \in InferProcs : inf[p].pc = "idle"
    /\ cursor = Len(events)
    /\ \A i \in EventIds : events[i].session_id # None
    /\ \A i, j \in EventIds : i < j => events[i].ts <= events[j].ts

\* C39: inference does not depend on when infer is invoked: for events
\* ingested in timestamp order, the grouping of the events into sessions
\* and into workflow runs, with outcomes, names, step counts and
\* fingerprints, reached by infer runs with ingests between them is the one
\* that a single infer run after all events gives.
C39_InferenceIndependentOfInvocation ==
    AllInferredInOrder =>
        /\ SessionGrouping(events) = SessionGrouping(InferOnce.E)
        /\ WorkflowGrouping(events, workflows)
              = WorkflowGrouping(InferOnce.E, InferOnce.W)

\* Two events ingested in timestamp order and processed by two infer runs:
\* they are in one session and in two workflow runs.
C39_Witness ==
    /\ AllInferredInOrder
    /\ Len(events) = 2
    /\ events[1].session_id = events[2].session_id
    /\ events[1].workflow_run_id # events[2].workflow_run_id
    /\ ~ is_entry_command(events[2].cmd)
    /\ ~ is_terminal_command(events[1].cmd)

====
